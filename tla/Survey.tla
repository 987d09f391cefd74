------------------------------- MODULE Survey -------------------------------
(***************************************************************************)
(* What a command that reads a directory promises of files that change     *)
(* under it: it looks once at each file, at some moment between its start  *)
(* and its end, and judges the text it finds there as of its start; a file *)
(* it finds missing when it looks for files is passed over.  The command   *)
(* ends when nothing is left to look at, and its exit follows from what it *)
(* has said and nothing else.  A text may be fatal to it, and then it has  *)
(* said nothing.  In which order and in how many passes the files are      *)
(* looked at is left open.                                                 *)
(***************************************************************************)
CONSTANTS
  Files, Texts, Absent, Times, Sweepers,
  Asks,          \* what a command may be asked; an ask has its start
  Unsaid,        \* said of a file that has not been looked at
  Judge(_, _),   \* what a command, so asked, says of a text
  Fatal(_, _),   \* whether the text ends it
  Hopeless(_),   \* whether what is asked cannot be computed at all
  Passes(_, _)   \* whether, so asked and having said this, it succeeds

VARIABLES
  text, now,     \* the files and the clock
  ask, stage,    \* what each command was asked, and how far it is
  said           \* what it has said of each file

vars == <<text, now, ask, stage, said>>

Nothing == [f \in Files |-> {}]

Init ==
  /\ text \in [Files -> Texts]
  /\ now \in Times
  /\ ask \in [Sweepers -> Asks]
  /\ stage = [s \in Sweepers |-> "idle"]
  /\ said = [s \in Sweepers |-> Nothing]

\* Authors and time know of no command.
WorldMoves ==
  /\ text' \in [Files -> Texts]
  /\ now' \in Times
  /\ UNCHANGED <<ask, stage, said>>

\* A command comes to stage e, having said `first` of the files so far.
Begins(s, a, e, first) ==
  /\ stage[s] # "sweeping" /\ a.start = now
  /\ ask' = [ask EXCEPT ![s] = a]
  /\ stage' = [stage EXCEPT ![s] = e]
  /\ said' = [said EXCEPT ![s] = first]
  /\ UNCHANGED <<text, now>>

\* It begins to look; the missing files among fs are passed over.
Begin(s, a, fs) ==
  Begins(s, a, "sweeping",
    [f \in Files |-> IF f \in fs /\ text[f] = Absent THEN {} ELSE Unsaid])

GiveUp(s, a) == Hopeless(a) /\ Begins(s, a, "traceback", Nothing)

\* It looks at f.
Look(s, f) ==
  /\ stage[s] = "sweeping" /\ said[s][f] = Unsaid
  /\ ~Fatal(ask[s], text[f])
  /\ said' = [said EXCEPT ![s][f] = Judge(ask[s], text[f])]
  /\ UNCHANGED <<text, now, ask, stage>>

\* It looks for the files fs, which it has not looked at, and some are missing.
PassOver(s, fs) ==
  /\ stage[s] = "sweeping" /\ \A f \in fs : said[s][f] = Unsaid
  /\ said' = [said EXCEPT ![s] =
       [f \in Files |-> IF f \in fs /\ text[f] = Absent THEN {} ELSE said[s][f]]]
  /\ UNCHANGED <<text, now, ask, stage>>

Fail(s, f) ==
  /\ stage[s] = "sweeping" /\ said[s][f] = Unsaid
  /\ Fatal(ask[s], text[f])
  /\ stage' = [stage EXCEPT ![s] = "traceback"]
  /\ said' = [said EXCEPT ![s] = Nothing]
  /\ UNCHANGED <<text, now, ask>>

End(s) ==
  /\ stage[s] = "sweeping" /\ \A f \in Files : said[s][f] # Unsaid
  /\ stage' = [stage EXCEPT ![s] =
       IF Passes(ask[s], said[s]) THEN "zero" ELSE "one"]
  /\ UNCHANGED <<text, now, ask, said>>

Next ==
  \/ WorldMoves
  \/ \E s \in Sweepers :
       \/ \E a \in Asks : \/ \E fs \in SUBSET Files : Begin(s, a, fs)
                          \/ GiveUp(s, a)
       \/ \E f \in Files : Look(s, f) \/ Fail(s, f)
       \/ \E fs \in SUBSET Files : PassOver(s, fs)
       \/ End(s)

Spec == Init /\ [][Next]_vars
=============================================================================
