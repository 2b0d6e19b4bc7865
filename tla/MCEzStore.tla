----------------------------- MODULE MCEzStore -----------------------------
(***************************************************************************)
(* A small board for EzStore.                                              *)
(***************************************************************************)
EXTENDS EzStore, TLC

TwoLayouts == { (KERNEL :> 2 @@ RAMDISK :> 2 @@ APPIMAGE :> 0),
                (KERNEL :> 1 @@ RAMDISK :> 2 @@ APPIMAGE :> 1) }
First == KERNEL :> 2 @@ RAMDISK :> 2 @@ APPIMAGE :> 0
Reserves == KERNEL :> 0 @@ RAMDISK :> 1

(* Two pages; more pages than a load of the ramdisk reads, all alike.      *)
Images == { <<1, 2>>, <<3, 3, 3>> }

NoneOrOne == { {}, {1} }

Blocks == << 0, 2, 3 >>
=============================================================================
