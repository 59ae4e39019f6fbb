------------------------------ MODULE WireLayout ------------------------------
(***************************************************************************)
(* How a message becomes bytes and how the bytes are read back.  A message *)
(* is a record; a layout is a sequence of items, one per value the code    *)
(* writes or reads, in its order.  The server's codec (Go: encoding/binary,*)
(* big-endian, every short read an error) and the plugin's parser (C++:    *)
(* size checks followed by unchecked indexing) read with different items.  *)
(*                                                                         *)
(* TLC's integers have 32 bits: a 4- or 8-byte value is named by the       *)
(* signed number of its low four bytes.  A string is its sequence of bytes.*)
(***************************************************************************)
EXTENDS Integers, Sequences, SequencesExt, TLC

ByteWidth == [u8 |-> 1, flag |-> 1, u16 |-> 2, i16 |-> 2, u32 |-> 4, i32 |-> 4, i64 |-> 8]

(* The bytes of a number, most significant first.                          *)
BigEndian(v, w) ==
    [i \in 1..w |-> IF w - i >= 4 THEN (IF v < 0 THEN 255 ELSE 0)
                                  ELSE (v \div 256^(w - i)) % 256]

(* The number the bytes of b from position i on stand for.                 *)
Number(kind, b, i) ==
    LET signed(x) == IF x >= 128 THEN x - 256 ELSE x
    IN CASE kind = "u8"   -> b[i]
         [] kind = "flag" -> b[i] # 0
         [] kind = "u16"  -> 256 * b[i] + b[i + 1]
         [] kind = "i16"  -> 256 * signed(b[i]) + b[i + 1]
         [] kind \in {"u32", "i32"} ->
                16777216 * signed(b[i]) + 65536 * b[i + 1] + 256 * b[i + 2] + b[i + 3]
         [] kind = "i64" ->
                16777216 * signed(b[i + 4]) + 65536 * b[i + 5] + 256 * b[i + 6] + b[i + 7]

(* Kinds of a struct's fields.                                             *)
I16s(fields)  == [f \in fields |-> "i16"]
I32s(fields)  == [f \in fields |-> "i32"]
U8s(fields)   == [f \in fields |-> "u8"]
U16s(fields)  == [f \in fields |-> "u16"]
U32s(fields)  == [f \in fields |-> "u32"]
Flags(fields) == [f \in fields |-> "flag"]
Texts(fields) == [f \in fields |-> "text"]

Lists(fields) == [f \in fields |-> "list"]

ZeroOf(kind) == IF kind = "flag" THEN FALSE ELSE IF kind \in DOMAIN ByteWidth THEN 0 ELSE <<>>
Zero(struct) == [f \in DOMAIN struct |-> ZeroOf(struct[f])]

(***************************************************************************)
(* Items.  Fields takes the widths from the struct, as binary.Write and    *)
(* binary.Read do.                                                         *)
(***************************************************************************)
Fields(struct, fs) == [i \in DOMAIN fs |-> [do |-> "field", f |-> fs[i], kind |-> struct[fs[i]]]]
Text(f, max)       == <<[do |-> "text", f |-> f, max |-> max]>>
When(f, vals, its) == <<[do |-> "when", f |-> f, vals |-> vals, items |-> its]>>
Each(f, cw, s, its) == <<[do |-> "each", f |-> f, cw |-> cw, struct |-> s, items |-> its]>>
(* A 4-byte length; as many elements as the product of the fields ns says; *)
(* a block behind a presence byte; four bytes per element of of, if the    *)
(* payload ends with exactly that many.                                    *)
LongText(f)           == <<[do |-> "longtext", f |-> f]>>
Times(f, ns, s, its)  == <<[do |-> "times", f |-> f, ns |-> ns, struct |-> s, items |-> its]>>
Present(f, its)       == <<[do |-> "present", f |-> f, items |-> its]>>
Trailer(f, of)        == <<[do |-> "trailer", f |-> f, of |-> of]>>
(* Tolerant of an older peer: nothing left means the default.              *)
Late(f, kind, default) == <<[do |-> "late", f |-> f, kind |-> kind, default |-> default]>>
LateText(f, max)       == <<[do |-> "latetext", f |-> f, max |-> max]>>

(* Items of the plugin's parser.                                           *)
Need(n)            == <<[do |-> "need", n |-> n]>>
Ahead(n)           == <<[do |-> "ahead", n |-> n]>>
Raw(kind, fs)      == [i \in DOMAIN fs |-> [do |-> "raw", f |-> fs[i], kind |-> kind]]
Skip(n)            == <<[do |-> "skip", n |-> n]>>
RawText(f, extra)  == <<[do |-> "rawtext", f |-> f, extra |-> extra]>>
Lax(f, default)    == <<[do |-> "lax", f |-> f, default |-> default]>>
LaxText(f)         == <<[do |-> "laxtext", f |-> f]>>
Only(f, vals)      == <<[do |-> "only", f |-> f, vals |-> vals]>>
(* Items of the plugin's senders.                                          *)
Clamped(fs)        == [i \in DOMAIN fs |-> [do |-> "clamped", f |-> fs[i]]]
ClampedText(f, max) == <<[do |-> "clampedtext", f |-> f, max |-> max]>>
OnMap(v)           == IF v < 0 \/ v > 32000 THEN -1 ELSE v

(***************************************************************************)
(* Writing.  The length of a string is written as a uint16 whatever it is. *)
(***************************************************************************)
RECURSIVE Write(_, _)
Put(it, m) ==
    CASE it.do \in {"field", "raw", "late"} ->
            IF it.kind = "flag" THEN <<IF m[it.f] THEN 1 ELSE 0>> ELSE BigEndian(m[it.f], ByteWidth[it.kind])
      [] it.do \in {"text", "latetext"} -> BigEndian(Len(m[it.f]), 2) \o m[it.f]
      [] it.do = "when" -> IF m[it.f] \in it.vals THEN Write(it.items, m) ELSE <<>>
      [] it.do = "each" -> BigEndian(Len(m[it.f]), it.cw)
                           \o FlattenSeq([i \in DOMAIN m[it.f] |-> Write(it.items, m[it.f][i])])
      [] it.do = "times" -> FlattenSeq([i \in DOMAIN m[it.f] |-> Write(it.items, m[it.f][i])])
      [] it.do = "longtext" -> BigEndian(Len(m[it.f]), 4) \o m[it.f]
      [] it.do = "present" -> IF m[it.f] THEN <<1>> \o Write(it.items, m) ELSE <<0>>
      [] it.do = "trailer" -> FlattenSeq([i \in DOMAIN m[it.f] |-> BigEndian(m[it.f][i], 4)])
      [] it.do = "clamped" -> BigEndian(OnMap(m[it.f]), 2)
      [] it.do = "clampedtext" ->
            LET kept == SubSeq(m[it.f], 1, IF Len(m[it.f]) > it.max THEN it.max ELSE Len(m[it.f]))
            IN BigEndian(Len(kept), 2) \o kept
Write(items, m) == FlattenSeq([i \in DOMAIN items |-> Put(items[i], m)])

(* The fields a layout writes of m, in order.                              *)
RECURSIVE Written(_, _)
Written(items, m) ==
    FlattenSeq([i \in DOMAIN items |->
        IF items[i].do = "present"
        THEN <<items[i].f>> \o (IF m[items[i].f] THEN Written(items[i].items, m) ELSE <<>>)
        ELSE IF items[i].do # "when" THEN <<items[i].f>>
        ELSE IF m[items[i].f] \in items[i].vals THEN Written(items[i].items, m) ELSE <<>>])

(* The encoder's own limits on strings.                                    *)
RECURSIVE Fits(_, _)
Fits(items, m) ==
    \A i \in DOMAIN items :
        LET it == items[i]
        IN CASE it.do \in {"text", "latetext"} -> Len(m[it.f]) <= it.max
             [] it.do = "when" -> m[it.f] \in it.vals => Fits(it.items, m)
             [] it.do = "present" -> m[it.f] => Fits(it.items, m)
             [] it.do \in {"each", "times"} -> \A j \in DOMAIN m[it.f] : Fits(it.items, m[it.f][j])
             [] OTHER -> TRUE

(* What a reader is expected to see: the fields the layout does not write  *)
(* are left at their zero value.                                           *)
Canonical(items, struct, m) ==
    [f \in DOMAIN struct |-> IF f \in ToSet(Written(items, m)) THEN m[f] ELSE ZeroOf(struct[f])]

(***************************************************************************)
(* Reading.  A reader r has the message so far, its position, and "ok",    *)
(* "refused" or "fault", a read past the end of the buffer.                *)
(***************************************************************************)
RECURSIVE Run(_, _, _)
RECURSIVE Product(_, _)
Product(ns, m) == IF ns = <<>> THEN 1 ELSE m[Head(ns)] * Product(Tail(ns), m)
Take(it, b, r) ==
    LET left       == Len(b) - r.at
        refused    == [r EXCEPT !.st = "refused"]
        with(v, n) == [r EXCEPT !.m = (it.f :> v) @@ @, !.at = @ + n]
        number     == with(Number(it.kind, b, r.at + 1), ByteWidth[it.kind])
        len        == Number("u16", b, r.at + 1)
        text       == with(SubSeq(b, r.at + 3, r.at + 2 + len), 2 + len)
        goText     == IF left >= 2 /\ left >= 2 + len THEN text ELSE refused
        end(v)     == with(v, left)
        one(q, i)  == IF q.st # "ok" THEN q
                      ELSE LET e == Run(it.items, b, [q EXCEPT !.m = Zero(it.struct)])
                           IN [e EXCEPT !.m = (it.f :> Append(q.m[it.f], e.m)) @@ q.m]
        elements(n, skip) == FoldLeft(one, with(<<>>, skip), [i \in 1..n |-> i])
    IN CASE it.do = "field"   -> IF left >= ByteWidth[it.kind] THEN number ELSE refused
         [] it.do = "text"    -> goText
         [] it.do = "late"    -> IF left = 0 THEN with(it.default, 0)
                                 ELSE IF left >= ByteWidth[it.kind] THEN number ELSE refused
         [] it.do = "latetext" -> IF left = 0 THEN with(<<>>, 0) ELSE goText
         [] it.do = "when"    -> IF r.m[it.f] \in it.vals THEN Run(it.items, b, r) ELSE r
         [] it.do = "each"    ->
                IF left < it.cw THEN refused
                ELSE elements(Number(CASE it.cw = 1 -> "u8" [] it.cw = 2 -> "u16" [] it.cw = 4 -> "u32", b, r.at + 1), it.cw)
         [] it.do = "times"   -> elements(Product(it.ns, r.m), 0)
         [] it.do = "longtext" ->
                LET size == Number("u32", b, r.at + 1)
                IN IF left >= 4 /\ left >= 4 + size THEN with(SubSeq(b, r.at + 5, r.at + 4 + size), 4 + size) ELSE refused
         [] it.do = "present" -> IF left = 0 THEN with(FALSE, 0)
                                 ELSE IF b[r.at + 1] # 1 THEN with(FALSE, 1)
                                 ELSE Run(it.items, b, with(TRUE, 1))
         [] it.do = "trailer" ->
                LET n == Len(r.m[it.of])
                IN IF left = 4 * n
                   THEN with([i \in 1..n |-> Number("u32", b, r.at + 4 * i - 3)], left)
                   ELSE with([i \in 1..n |-> 0], 0)
         [] it.do = "need"    -> IF Len(b) >= it.n THEN r ELSE refused
         [] it.do = "ahead"   -> IF left >= it.n THEN r ELSE refused
         [] it.do = "raw"     -> IF left >= ByteWidth[it.kind] THEN number ELSE [r EXCEPT !.st = "fault"]
         [] it.do = "skip"    -> [r EXCEPT !.at = @ + it.n]
         [] it.do = "rawtext" -> IF left < 2 THEN [r EXCEPT !.st = "fault"]
                                 ELSE IF left >= 2 + len + it.extra THEN text ELSE refused
         [] it.do = "lax"     -> IF left >= 1 THEN with(b[r.at + 1], 1) ELSE with(it.default, 0)
         [] it.do = "laxtext" -> IF left >= 2 /\ left >= 2 + len THEN text ELSE end(<<>>)
         [] it.do = "only"    -> IF r.m[it.f] \in it.vals THEN r ELSE refused
Run(items, b, r) == FoldLeft(LAMBDA q, it : IF q.st = "ok" THEN Take(it, b, q) ELSE q, r, items)

(* Bytes after the last item are ignored, by both sides.                   *)
Read(items, struct, b) == Run(items, b, [st |-> "ok", at |-> 0, m |-> Zero(struct)])
===============================================================================
