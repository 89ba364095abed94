---------------------------- MODULE MCXboxNand ----------------------------
(***************************************************************************)
(* Small instances of XboxNand: four sectors, pages of one data and one      *)
(* spare word of one bit each, blocks of 2, 4 and 8 sectors, or of 1, 2 and  *)
(* 4 where the cache may come from a console with smaller ones.              *)
(***************************************************************************)
EXTENDS XboxNand

TwoPages == {<<{1}, {}>>, <<{}, {1}>>}
OnePage == {<<{1}, {}>>}

\* A small-block console (minor 1) and a large-block one (major 1, minor 2).
SmallConfig == {4}
LargeConfig == {5, 17}
BothConfigs == {SmallConfig, LargeConfig}
OnlySmall == {SmallConfig}
OnlyLarge == {LargeConfig}

Unprobed == {{}}
\* The cache may also have been filled with no console powered,
\* or with a console of smaller blocks.
AnyCache == {{}, FloatingBus, SmallConfig}

\* Sector 5 is sector 1 again: lba << 9 drops the bit that tells them apart.
WrappingLbas == {0, 1, 2, 5}
AliasLbas == {0, 1, 5}
OneBlock == {0, 1}
=============================================================================
