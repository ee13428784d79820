------------------------ MODULE MCNrfFirmwareUpdate ------------------------
(* Packages of three objects, and of one or two pairs of images: packets   *)
(* of two bytes, chunks and objects of four packets. Headers of three      *)
(* bytes, the last two of them the field that is read too early.           *)
EXTENDS NrfFirmwareUpdate, SequencesExt

(* A package with images of these sizes, an INIT before every DATA. *)
Package(sizes) ==
    [i \in DOMAIN sizes |->
        [type |-> IF i % 2 = 1 THEN "FIRMWARE_INIT" ELSE "FIRMWARE_DATA",
         size |-> sizes[i],
         end |-> FoldSeq(LAMBDA size, n : HeaderLen + size + n, 0,
                         SubSeq(sizes, 1, i))]]

(* No header lies in two chunks; that of the last image does, that of the  *)
(* second, or one that is cut in its last field.                           *)
MCPackages ==
    {Package(<<8, 11>>), Package(<<5, 11>>), Package(<<2, 3, 2, 5>>),
     Package(<<1, 3, 2, 5>>), Package(<<4, 3, 2, 5>>), Package(<<3, 5>>)}

=============================================================================
