----------------------------- MODULE MCRecords -----------------------------
(* What is kept of a session: its goal and its file.  The two have no state *)
(* in common; a behaviour follows one of them, the other stays as it        *)
(* begins.  It ends where saves meet, of which the properties of the file   *)
(* say nothing; the run of FileIsWhole goes on from there.                  *)
EXTENDS SessionGoal, SessionFile, Sequences

VARIABLE part

MCInit == part \in {"goal", "file"} /\ Init /\ FileInit

MCNext ==
    /\ UNCHANGED part
    /\ \/ part = "goal" /\ Next /\ UNCHANGED fileVars
       \/ part = "file" /\ FileNext /\ ~overlapped' /\ UNCHANGED vars

MCSpec == MCInit /\ [][MCNext]_<<part, vars, fileVars>>
-----------------------------------------------------------------------------
(* The numbers that name objects and checkpoints mean nothing: they are     *)
(* replaced by the first place that holds the object, or the checkpoint.    *)

CONSTANTS s1, b1

Places ==
    <<memory, stray, cache, save[s1].from, save[b1].from, save[s1].copy, save[b1].copy>>

Renamed(P) ==
    LET First(n, same(_, _)) == CHOOSE k \in 1..n : same(P[k], P[n]) /\ \A j \in 1..k - 1 : ~same(P[j], P[n])
        SameId(o, p) == o.id = p.id
        SameCell(o, p) == o.cell = p.cell IN
    [n \in 1..Len(P) |->
        IF P[n] = Nil THEN <<>> ELSE <<First(n, SameId), First(n, SameCell), P[n].own, P[n].done>>]

MCView ==
    IF part = "goal" THEN <<part, vars>>
    ELSE <<part, clock, file, tmp, load, delete, overlapped, split, Renamed(Places),
           [s \in Saver |-> <<save[s].pc, save[s].fd, save[s].attempt>>]>>
=============================================================================
