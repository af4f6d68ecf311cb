------------------------------- MODULE MCVerity -------------------------------
(***************************************************************************)
(* dm-verity for TLC: its workers (DmVerity), with trees of two levels     *)
(* over three blocks, two digests in a hash block, and block 0 of the hash *)
(* device as the root; and its targets (VerityTarget), on a machine whose  *)
(* sectors have two bytes, whose pages have eight and whose sector_t has   *)
(* eight bits. A behaviour is of one of the four, which program names; the *)
(* three of the workers share their variables and differ in the constants  *)
(* of the steps they take, and the invariants are stated for them all.     *)
(***************************************************************************)
EXTENDS Verity

SmallTree == [version |-> 1, levels |-> 2, hash_per_block_bits |-> 1, data_dev_block_bits |-> 1,
              hash_start |-> 0, hash_blocks |-> 3,
              hash_level_block |-> [i \in 0..1 |-> 1 - i]]

NoTree == [SmallTree EXCEPT !.levels = 0, !.hash_level_block = <<>>]

AllModes == {"eio", "logging", "restart"}

\* The first block, and two blocks under different hash blocks.
OneBlock  == {<<0, 1>>}
TwoBlocks == {<<1, 2>>}
SomeBios  == OneBlock \cup TwoBlocks

\* No shift count of verity_ctr reaches the width for these.
SmallCounts == {0, 1, 2, 3, 4, 5, 9, 15, 16, 17, 32, 33, 64}

\* all the ways through verity_ctr
AllTables ==
    [block_sizes |-> {0, 3, 4, 8, 16}, data_blocks |-> SmallCounts,
     hash_starts |-> {0, 1, 5, 140}, digest_sizes |-> {2, 3}, lengths |-> {6},
     device_sizes |-> {0, 200}, clusters |-> {}]

\* few of them, and all that verity_map may be asked for
FewTables ==
    [block_sizes |-> {4, 8}, data_blocks |-> {5, 9}, hash_starts |-> {3},
     digest_sizes |-> {2, 3}, lengths |-> {9, 12}, device_sizes |-> {255},
     clusters |-> {0, 16}]

SmallTables == {AllTables, FewTables}

VARIABLE program    \* the one this behaviour is of

\* two workers over the same block, which may be forged, with prefetches
Shared == INSTANCE DmVerity WITH
    Bios <- OneBlock, MaxErrs <- 1, Contents <- {"good", "forged"}, Fillers <- {1}

Solo == CHOOSE w \in Workers : TRUE

\* one worker with two blocks under different hash blocks, which may be damaged
Long == INSTANCE DmVerity WITH
    Workers <- {Solo}, Bios <- TwoBlocks, MaxErrs <- 1, Contents <- AllContents, Fillers <- {}

\* a device of one block has no tree: the root digest is that of the block
Bare == INSTANCE DmVerity WITH
    Bios <- OneBlock, V <- NoTree, Contents <- AllContents, Fillers <- {}

Programs == {"Shared", "Long", "Bare", "Target"}
ModesOf == [Shared |-> {"eio"}, Long |-> {"eio", "logging"}, Bare |-> AllModes,
            Target |-> {"eio"}]

SuiteInit ==
    /\ program \in Programs
    /\ Init /\ mode \in ModesOf[program]
    /\ Target!Init
    /\ program # "Target" => tg_table = CHOOSE t \in Tables : TRUE

WorkersNext ==
    \/ program = "Shared" /\ Shared!Next
    \/ program = "Long" /\ Long!Next
    \/ program = "Bare" /\ Bare!Next

SuiteNext ==
    /\ UNCHANGED program
    /\ IF program \in {"Shared", "Long", "Bare"} THEN WorkersNext ELSE UNCHANGED vars
    /\ IF program = "Target" THEN Target!Next ELSE UNCHANGED targetState

\* The data device answers and the workqueue runs what is queued.
Fairness ==
    /\ WF_vars(program = "Long" /\ Long!Step(Solo))
    /\ WF_vars(program = "Long" /\ Long!EndIo(Solo))
    /\ \A w \in Workers : /\ WF_vars(program = "Bare" /\ Bare!Step(w))
                          /\ WF_vars(program = "Bare" /\ Bare!EndIo(w))

SuiteSpec ==
    /\ SuiteInit
    /\ [][SuiteNext]_<<program, vars, targetState>>
    /\ Fairness

----------------------------------------------------------------------------
\* Every bio the device answered is completed, unless the machine restarts.
BiosEnd ==
    \A w \in Workers :
        program \in {"Long", "Bare"} /\ At(w, "device") ~> io[w].pc \in {"done", "halted"}
=============================================================================
