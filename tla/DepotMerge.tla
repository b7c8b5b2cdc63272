----------------------------- MODULE DepotMerge -----------------------------
(***************************************************************************)
(* How the packs of a repository grow and are merged (maint.rs): pushes    *)
(* append packs, after_push queues a geometric repack when one is due, and *)
(* the repack merges the newest packs.  Only the lengths of the packs      *)
(* matter here; what becomes of their objects is in DepotMaint.            *)
(***************************************************************************)
EXTENDS DepotPick

CONSTANTS Lengths,  \* the lengths a pushed pack may have
          MaxPushes \* bound: pushes

ASSUME LengthsAssumption == Lengths \subseteq Nat \ {0} /\ MaxPushes \in Nat

VARIABLES lens,    \* the lengths of the packs, oldest first
          queued,  \* is the repository in the queue of repacks
          run,     \* the repack that runs: the positions it merges, <<>> if none
          pushes   \* how many there were

mergeVars == <<lens, queued, run, pushes>>

MergeInit == lens = <<>> /\ queued = FALSE /\ run = <<>> /\ pushes = 0

\* A push commits, and after_push looks for a repack that is due.
Push(len) ==
    /\ pushes < MaxPushes
    /\ pushes' = pushes + 1
    /\ lens' = Append(lens, len)
    /\ queued' = (queued \/ Pick(lens') # 0)
    /\ UNCHANGED run

\* start picks again, by now.
Start ==
    /\ run = <<>> /\ queued
    /\ queued' = FALSE
    /\ run' = IF Pick(lens) = 0 THEN <<>> ELSE <<Pick(lens), Len(lens)>>
    /\ UNCHANGED <<lens, pushes>>

\* commit: the run makes way for one pack; what was pushed meanwhile comes after.
Commit ==
    /\ run # <<>>
    /\ lens' = SubSeq(lens, 1, run[1] - 1)
               \o <<SumFunctionOnSet(lens, run[1]..run[2])>>
               \o SubSeq(lens, run[2] + 1, Len(lens))
    /\ run' = <<>>
    /\ UNCHANGED <<queued, pushes>>

\* The periodic round looks again (consider).
Consider ==
    /\ run = <<>> /\ ~queued
    /\ queued' = (Pick(lens) # 0)
    /\ UNCHANGED <<lens, run, pushes>>

MergeNext == (\E len \in Lengths : Push(len)) \/ Start \/ Commit \/ Consider

MergeSpec == MergeInit /\ [][MergeNext]_mergeVars

\* Pushes so far apart that each finds the repacks before it done.
Rested == run = <<>> /\ ~queued /\ Pick(lens) = 0
ApartSpec == MergeInit /\ [][MergeNext /\ (pushes' # pushes => Rested)]_mergeVars

------------------------------------------------------------------------------
\* "so the pack count stays logarithmic" (README.md, Repack): at rest, all packs
\* together are at least twice as long for every pack beyond the first few.
Total == SumFunctionOnSet(lens, DOMAIN lens)
Logarithmic == Rested /\ Len(lens) >= MinPacks => 2 ^ (Len(lens) - MinPacks + 1) <= Total
=============================================================================
