----------------------------- MODULE MCProgram -----------------------------
(* Instances of Program for TLC.                                            *)
EXTENDS Program, TLC

Config(ui, acts, smb, t, n, qs) ==
    [ui |-> ui, acts |-> acts, smb |-> smb, ticks |-> t, notes |-> n, queries |-> qs]

\* -ui-dir alone; -activity-dir alone, over three days and with two queries; and
\* -activity-dir with -smb-log.
MCUi == Config(TRUE, FALSE, FALSE, 0, 0, {})
MCWeb == Config(FALSE, TRUE, FALSE, 4, 3, {<<0, 1>>, <<2, 0>>})
MCSmb == Config(FALSE, TRUE, TRUE, 0, 0, {})

MCFlags == {MCUi, MCWeb, MCSmb}

Symmetry == Permutations(Asks) \cup Permutations(Writers) \cup Permutations(Inodes)
=============================================================================
