---------------------------- MODULE MC_Resource ----------------------------
(* Instantiation of Resource for TLC: a 4-bit address space of 2-byte      *)
(* pages (pfns 0..7) and candidate resources                               *)
(*   ram1 [0, 4]  System RAM ending one byte into page 2;                  *)
(*   ram2 [7, 11] System RAM, pages 4..5;                                  *)
(*   dev  [8, 9]  inside ram2;                                             *)
(*   bus  [5, 12] covering ram2 (insert adopts it);                        *)
(*   dup  [7, 11] the same range as ram2;                                  *)
(*   bad  [4, 8]  sharing byte 4 with ram1, partly over ram2;              *)
(*   inv  [9, 8]  end below start.                                         *)
EXTENDS Resource, TLC

CONSTANTS ram1, ram2, dev, bus, dup, bad, inv

MC_Res == {ram1, ram2, dev, bus, dup, bad, inv}
MC_ResStart == (ram1 :> 0) @@ (ram2 :> 7) @@ (dev :> 8) @@ (bus :> 5) @@ (dup :> 7)
               @@ (bad :> 4) @@ (inv :> 9)
MC_ResEnd == (ram1 :> 4) @@ (ram2 :> 11) @@ (dev :> 9) @@ (bus :> 12) @@ (dup :> 11)
             @@ (bad :> 8) @@ (inv :> 8)
MC_Ram == {ram1, ram2}
====
