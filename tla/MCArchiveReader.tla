--------------------------- MODULE MCArchiveReader ---------------------------
(* Archives of up to three entries over a few files, a directory and an    *)
(* entry of a kind that the reader skips; and of up to two of which one    *)
(* may have a size whose first digit counts, so that the reader loses its  *)
(* place in the stream.                                                    *)
EXTENDS ArchiveReader

CONSTANTS f, g, d, df

MCAbove == [p \in Name |-> IF p = df THEN {d} ELSE {}]

Octal(n) == <<n \div 8, n % 8>>

Aligned == {
  [path |-> f,  kind |-> "file",  size |-> Octal(0)],
  [path |-> f,  kind |-> "file",  size |-> Octal(1)],
  [path |-> g,  kind |-> "file",  size |-> Octal(4)],
  [path |-> g,  kind |-> "other", size |-> Octal(3)],
  [path |-> d,  kind |-> "dir",   size |-> Octal(0)],
  [path |-> d,  kind |-> "file",  size |-> Octal(1)],
  [path |-> df, kind |-> "file",  size |-> Octal(2)],
  [path |-> df, kind |-> "dir",   size |-> Octal(0)],
  [path |-> f,  kind |-> "file",  size |-> <<0, -16>>] }

(* Nine units, which oct2dec takes for one.                                *)
Shifting == [path |-> g, kind |-> "file", size |-> Octal(9)]

MCHeader == Aligned \cup {Shifting}

MCArchives ==
  UNION {[1..n -> Aligned] : n \in 0..3} \cup UNION {[1..n -> MCHeader] : n \in 1..2}
=============================================================================
