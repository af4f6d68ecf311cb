------------------------------- MODULE Verity -------------------------------
(***************************************************************************)
(* Both halves of dm-verity: the workers of one target (DmVerity) and the  *)
(* making and mapping of targets (VerityTarget). They share the arithmetic *)
(* of the tree and no state: the workers' tree V is a constant, as         *)
(* verity_ctr leaves it.                                                   *)
(***************************************************************************)
EXTENDS DmVerity

CONSTANTS SectorShift, PageSize, LogicalBlockSize, MaxLevels, Tables

VARIABLES tg_table, tg_pc, tg_v, tg_ptr, tg_held, tg_wild, tg_bio

Target == INSTANCE VerityTarget WITH
    table <- tg_table, pc <- tg_pc, v <- tg_v, ptr <- tg_ptr,
    held <- tg_held, wild <- tg_wild, bio <- tg_bio

targetState == <<tg_table, tg_pc, tg_v, tg_ptr, tg_held, tg_wild, tg_bio>>

ASSUME TablesAssumption == Target!WellFormed

\* The arithmetic of the tree: levels follow each other on the hash device and
\* end inside it, digests of two blocks never share a place, verity_map lets
\* through what lies in the target and nothing else, and what it prefetches
\* are hash blocks, among them those the bio needs; the workers find there what
\* they take for granted (PathAssumption, RootAssumption).  And verity_dtr gives back
\* all that verity_ctr took, wherever it failed.
Placed ==
    /\ Target!LayoutSound /\ Target!SlotsSound
    /\ Target!TypeOK /\ Target!NothingLeaks
    /\ Target!MapServes /\ Target!PathsSound /\ Target!PrefetchSound
=============================================================================
