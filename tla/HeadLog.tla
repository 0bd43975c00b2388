------------------------------ MODULE HeadLog ------------------------------
(***************************************************************************)
(* What the replicas of one identity owe each other: one history of heads. *)
(* A publication replaces the head it was merged from and nothing else, so *)
(* no accepted version is overwritten unseen.                              *)
(***************************************************************************)
EXTENDS Integers, Sequences

CONSTANTS None

VARIABLES
    log,      \* every head published: its operation, its parent, its generation
    stored    \* the position of the stored head, 0 when there is none

Entry == [op : Nat, parent : Nat \union {None}, gen : Nat]

Init == log = <<>> /\ stored = 0

Extends(entry) ==
    IF stored = 0 THEN entry.parent = None
    ELSE entry.parent = log[stored].op /\ entry.gen = log[stored].gen + 1

Publish ==
    /\ Len(log') = Len(log) + 1
    /\ log' = Append(log, log'[Len(log')])
    /\ Extends(log'[Len(log')])
    /\ stored' = Len(log')

Next == Publish

Spec == Init /\ [][Next]_<<log, stored>>
=============================================================================
