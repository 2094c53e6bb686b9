---------------------------- MODULE StructLayout ----------------------------
(***************************************************************************)
(* How a #[repr(C)] structure or union lies in memory: every field at the  *)
(* next multiple of its alignment, the end rounded up to the alignment of  *)
(* the whole.  A type is a record with a size and an alignment in bytes.   *)
(***************************************************************************)
EXTENDS Naturals, Sequences, FiniteSetsExt

CONSTANT Word  \* bytes of a pointer and of a C long

WordAssumption == Word \in {4, 8}

Prim(n)     == [size |-> n, align |-> n]
CChar        == Prim(1)
CShort       == Prim(2)
CInt         == Prim(4)
CLongLong    == Prim(8)
CLong        == Prim(Word)
CPtr         == Prim(Word)
Array(n, t) == [size |-> n * t.size, align |-> t.align]
Bits(n, t)  == [size |-> n, align |-> t.align]  \* bindgen's bit-field unit
Flexible    == [size |-> 0, align |-> 1]        \* bindgen's T[]

NoOffset == 9999
Field(name, type, at)  == [name |-> name, type |-> type, at |-> at]
Unasserted(name, type) == Field(name, type, NoOffset)

\* the smallest multiple of a that is not below n
RoundUp(n, a) == ((n + a - 1) \div a) * a

\* where each field begins
Offsets(kind, fields) ==
  LET at[k \in DOMAIN fields] ==
        IF kind = "union" \/ k = 1 THEN 0
        ELSE RoundUp(at[k - 1] + fields[k - 1].type.size, fields[k].type.align)
  IN  at

AlignOf(fields) == Max({fields[k].type.align : k \in DOMAIN fields})

SizeOf(kind, fields) ==
  RoundUp(Max({Offsets(kind, fields)[k] + fields[k].type.size : k \in DOMAIN fields}),
          AlignOf(fields))

\* a declaration with the layout it is asserted to have
Struct(size, align, fields) ==
  [kind |-> "struct", size |-> size, align |-> align, fields |-> fields]
Union(size, align, fields) ==
  [kind |-> "union", size |-> size, align |-> align, fields |-> fields]

\* a declaration with no assertion beside it
Declared(kind, fields) ==
  [kind |-> kind, size |-> SizeOf(kind, fields), align |-> AlignOf(fields),
   fields |-> fields]
=============================================================================
