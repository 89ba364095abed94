---------------------------- MODULE NandGeometry ----------------------------
(***************************************************************************)
(* The data both halves of the NAND model talk about: pages, blocks and the *)
(* decoding of the controller's configuration word.                        *)
(*                                                                         *)
(* A register or buffer word is the set of its bits that are 1, so `a | b`  *)
(* is union, and programming a NAND cell, which can only clear bits, is     *)
(* intersection.  A page is the 0x210 bytes of one sector (0x200 data and   *)
(* 0x10 spare) as the driver moves them, PageWords words of DataBits.       *)
(***************************************************************************)
EXTENDS Integers

CONSTANTS
  DataBits,     \* the bits of one buffer word (32 in the code)
  PageWords,    \* the words of one sector: (0x200 + 0x10) / 4 in the code
  NSectors,     \* how many sectors `lba << 9` can tell apart in 32 bits (2^23)
  SmallBlock,   \* 0x4000  / 0x200 sectors per erase block
  LargeBlock,   \* 0x20000 / 0x200
  HugeBlock     \* 0x40000 / 0x200

ASSUME PageAssumption == PageWords \in Nat \ {0}

ASSUME BlockAssumption ==
  /\ NSectors \in Nat \ {0}
  /\ SmallBlock \in Nat \ {0}
  /\ LargeBlock \in Nat \ {0}
  /\ HugeBlock \in Nat \ {0}

Sectors == 0 .. NSectors - 1
Words == 1 .. PageWords
Page == [Words -> SUBSET DataBits]

\* An erased sector reads as all ones.
Blank == [w \in Words |-> DataBits]

\* Programming `new` over `old` can clear bits but never set them.
Overlay(old, new) == [w \in Words |-> old[w] \cap new[w]]

\* A configuration word is the set of its 1 bits; 0xFFFFFFFF is what the
\* pulled-up data line gives when no controller answers.
ConfigWord == SUBSET (0 .. 31)
FloatingBus == 0 .. 31
WriteEnable == 3

(***************************************************************************)
(* The block size the driver derives from a configuration word: major is    *)
(* bits 17-18, minor is bits 4-5.                                           *)
(***************************************************************************)
SectorsInBlock(fc) ==
  LET majorSet  == fc \cap {17, 18} # {}
      minorBits == fc \cap {4, 5}
  IN  IF majorSet /\ minorBits = {5} THEN LargeBlock
      ELSE IF majorSet /\ minorBits = {4, 5} THEN HugeBlock
      ELSE SmallBlock

\* The sector a 32-bit `lba << 9` selects: the top nine bits of lba are lost.
SectorOf(lba) == lba % NSectors

BlockOf(sector, len) == {s \in Sectors : s \div len = sector \div len}
FirstOfBlock(lba, len) == lba % len = 0
=============================================================================
