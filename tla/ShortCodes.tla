----------------------------- MODULE ShortCodes -----------------------------
(***************************************************************************)
(* The two packages behind a short code: idgen.Allocator numbers the link, *)
(* Base62 writes the number.                                               *)
(***************************************************************************)
EXTENDS IdAllocator, Base62

\* TestEncodeDecode, for every ID that NextID returned: the code that Shorten
\* makes of it decodes to the ID and starts with a zero only for 0.  So no two
\* links get one code.
IssuedCodesDecode == \A id \in issued :
  /\ Decode(Encode(id)) = id
  /\ Encode(id)[1] = 0 => id = 0

\* minIDOffset (allocator.go:10-12) is there so that no code is very short:
\* whatever fails, repeats or restarts around the SET, no code is shorter than
\* that of the first ID of the block that the SET leads to.
NoShortCode == \A id \in issued :
  Len(Encode(id)) >= Len(Encode(MinIDOffset - RangeSize + 1))
=============================================================================
