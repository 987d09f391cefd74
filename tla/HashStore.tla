----------------------------- MODULE HashStore -----------------------------
(***************************************************************************)
(* What a record promises about its pins, whoever writes it and however    *)
(* many writes race.  At any time the record is readable or it is not; a   *)
(* publication replaces all pins in one step, and it can only pin a rule   *)
(* by a digest that has been found under that rule's name, or by the pin   *)
(* the record started with.  A pin is never made up and never another      *)
(* name's, and a ref that was pinned to begin with stays pinned.           *)
(***************************************************************************)
CONSTANTS Refs, Digests, NoDigest

VARIABLES
  pin,       \* the pin of each ref in the last readable record
  past,      \* the digests each ref may be pinned by
  readable   \* whether the file holds a record right now

vars == <<pin, past, readable>>

Init ==
  /\ pin \in [Refs -> Digests \cup {NoDigest}]
  /\ past \in [Refs -> SUBSET (Digests \cup {NoDigest})]
  /\ \A i \in Refs : pin[i] \in past[i] /\ past[i] \subseteq {pin[i]} \cup Digests
  /\ readable = TRUE

\* A rule file takes another text.
RulesMove ==
  /\ past' \in [Refs -> SUBSET (Digests \cup {NoDigest})]
  /\ \A i \in Refs : past[i] \subseteq past'[i] /\ past'[i] \subseteq past[i] \cup Digests
  /\ UNCHANGED <<pin, readable>>

\* A rewriting begins, or goes wrong: the pins are out of reach.
Withdraw ==
  /\ readable' = FALSE
  /\ UNCHANGED <<pin, past>>

Publish ==
  /\ readable' = TRUE
  /\ pin' \in [Refs -> Digests \cup {NoDigest}]
  /\ \A i \in Refs : pin'[i] \in past[i]
  /\ UNCHANGED past

Next == RulesMove \/ Withdraw \/ Publish

Spec == Init /\ [][Next]_vars
=============================================================================
