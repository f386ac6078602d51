------------------------------ MODULE SacFile ------------------------------
(***************************************************************************)
(* A SAC file as sacsubc.c writes it: a header in front, then the blocks of *)
(* samples that were appended.  The three functions open the file by name, *)
(* do one thing to it and close it; when fopen fails they print a message  *)
(* and return, and their callers go on.  A file that exists is the          *)
(* sequence of what lies on the disk: a header, if it has one, and blocks. *)
(***************************************************************************)
EXTENDS Naturals, Sequences

CONSTANT HeaderBlocks       \* blocks that the 632 bytes of a header reach into

ASSUME SacFileAssumption == HeaderBlocks \in Nat \ {0}

NoFile == [exists |-> FALSE, content |-> <<>>]
File(c) == [exists |-> TRUE, content |-> c]

(* The fields of the header that change from file to file.                 *)
Header(npts, start, max, min) ==
    [npts |-> npts, start |-> start, max |-> max, min |-> min]
Block(label) == [label |-> label]

(* What a reader of the file finds.                                        *)
HasHeader(f) == f.content # <<>> /\ "npts" \in DOMAIN f.content[1]
Blocks(f) == IF HasHeader(f) THEN Tail(f.content) ELSE f.content

-----------------------------------------------------------------------------
(* createFile: fopen with "wb" makes the file or empties it.               *)
CreateFile(f) == File(<<>>)

(* Mutant: the mode is "w", not "r+".                                       *)
UpdateHeaders_Truncates(f, h) == IF ~f.exists THEN f ELSE File(<<h>>)

(* updateHeaders: fopen with "r+" fails if there is no file; the header    *)
(* goes over what the file begins with, the header there or so many blocks *)
(* (a block that it covers in part is lost, too).                           *)
UpdateHeaders(f, h) ==
    IF ~f.exists THEN f
    ELSE File(<<h>> \o IF HasHeader(f) THEN Tail(f.content)
                       ELSE SubSeq(f.content, HeaderBlocks + 1, Len(f.content)))

(* updateData: fopen with "a" makes the file if there is none.             *)
UpdateData(f, b) == File(Append(f.content, b))

=============================================================================
