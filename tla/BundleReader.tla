----------------------------- MODULE BundleReader -----------------------------
(***************************************************************************)
(* read_item of crates/evermesh-kernel/src/bundle.rs: a third reader of    *)
(* CBOR, which finds where one item of the stream ends without decoding    *)
(* it.  Bytes and results are those of Codec.                              *)
(***************************************************************************)
EXTENDS Codec

CONSTANT MaxString    \* the longest string of an item, 64 << 20

ASSUME ItemAssumption == MaxString \in Nat

ArgBytes(b, p, low) ==
  IF low < 24 THEN Read(low, p)
  ELSE IF low > 27 THEN Fail
  ELSE IF p + Widths[low - 23] - 1 > Len(b) THEN Fail
  ELSE Read(Number(StripZeros(SubSeq(b, p, p + Widths[low - 23] - 1))), p + Widths[low - 23])

\* Seeded defect: the longest string is refused as well.
TooLongByOne(n) == n >= MaxString

\* "item too large"
TooLong(n) == n > MaxString

RECURSIVE ItemEnd(_, _, _)

\* The stack holds how many items each open container still expects.
ItemAt(b, p, major, low, rest) ==
  Then(ArgBytes(b, p + 1, low), LAMBDA n, q :
    CASE major \in {0, 1, 7} -> ItemEnd(b, q, rest)
      [] major \in {2, 3} ->
           IF TooLong(n) \/ q + n - 1 > Len(b) THEN Fail ELSE ItemEnd(b, q + n, rest)
      [] major \in {4, 5} ->
           IF Len(rest) >= MaxDepth THEN Fail
           ELSE ItemEnd(b, q, Append(rest, IF major = 4 THEN n ELSE 2 * n))
      [] OTHER -> Fail)

ItemEnd(b, p, stack) ==
  IF stack = <<>> THEN Read(Null, p)
  ELSE IF Last(stack) = 0 THEN ItemEnd(b, p, Front(stack))
  ELSE IF p > Len(b) THEN Fail
  ELSE ItemAt(b, p, b[p] \div 32, b[p] % 32, [stack EXCEPT ![Len(stack)] = @ - 1])

ReadItem(b) == ItemEnd(b, 1, <<1>>)

===============================================================================
