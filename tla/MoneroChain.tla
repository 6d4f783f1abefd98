---------------------------- MODULE MoneroChain ----------------------------
(***************************************************************************)
(* The block tree a Monero daemon can present, as the wallet uses it: a    *)
(* block hash commits to every block below it, a block pays some of the    *)
(* wallet's outputs and reveals the key images of some others.  The chain  *)
(* is not code of this repository; it is what refresh.rs reads through     *)
(* get_blocks.bin and on_get_block_hash.                                   *)
(***************************************************************************)
EXTENDS Integers

CONSTANTS
  Block,      \* block hashes of every branch
  NoBlock,    \* "no such hash": outside a window, or the parent of genesis
  MaxHeight,  \* heights are 0..MaxHeight
  HeightOf,   \* HeightOf[b]: the height of block b
  Anc,        \* Anc[b][h]: the block at height h on the chain that ends in b
  Output,     \* the outputs that pay this wallet, one per one-time key
  Minor,      \* Minor[o]: coverage level (subaddress index) that o pays
  MaxGap,     \* highest coverage level the host asks for
  Receives,   \* Receives[b]: the outputs created by the transactions of b
  Spends      \* Spends[b]: the outputs whose key image appears in b

Height == 0 .. MaxHeight

(* Hashes: the chain below a block is a function of the block.             *)
ASSUME ChainAssumption ==
  /\ MaxHeight \in Nat
  /\ NoBlock \notin Block
  /\ HeightOf \in [Block -> Height]
  /\ Anc \in [Block -> [Height -> Block \cup {NoBlock}]]
  /\ \A b \in Block : Anc[b][HeightOf[b]] = b
  /\ \A b \in Block : \A h \in Height :
       h <= HeightOf[b] <=> Anc[b][h] \in Block
  /\ \A b \in Block : \A h \in Height :
       h <= HeightOf[b] =>
         /\ HeightOf[Anc[b][h]] = h
         /\ \A k \in Height : k <= h => Anc[Anc[b][h]][k] = Anc[b][k]

(* Payments: on one chain an output is created once and its key image is   *)
(* accepted once, in a later block (consensus rules of the network).       *)
ASSUME PaymentAssumption ==
  /\ MaxGap \in Nat
  /\ Minor \in [Output -> 0 .. MaxGap]
  /\ Receives \in [Block -> SUBSET Output]
  /\ Spends \in [Block -> SUBSET Output]
  /\ \A b \in Block : \A h, k \in Height : \A o \in Output :
       /\ h <= HeightOf[b]
       /\ k <= HeightOf[b]
       => /\ o \in Receives[Anc[b][h]] /\ o \in Receives[Anc[b][k]] => h = k
          /\ o \in Spends[Anc[b][h]] /\ o \in Spends[Anc[b][k]] => h = k
          /\ o \in Spends[Anc[b][h]] /\ o \in Receives[Anc[b][k]] => k < h

(* header.previous; genesis names the zero hash.                           *)
Parent(b) == IF HeightOf[b] = 0 THEN NoBlock ELSE Anc[b][HeightOf[b] - 1]
=============================================================================
