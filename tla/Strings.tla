------------------------------- MODULE Strings -------------------------------
(***************************************************************************)
(* INSPECT, STRING and UNSTRING: the calls of libcob/strings.c in the      *)
(* order in which cobc emits them (typeck.c).  A statement is a sequence   *)
(* of calls that talk through static variables; every call is an action.   *)
(*                                                                         *)
(* A field is a sequence of characters.  The operands of a call may be     *)
(* functions: most clear cob_exception_code before they compute and set it *)
(* when an argument is wrong.  STRING and UNSTRING keep in that code that  *)
(* they have ended or that their pointer is out of range; when it is lost  *)
(* they go on outside the field: the model stops, "astray".                *)
(***************************************************************************)
EXTENDS Naturals, Integers, Sequences, FiniteSets, SequencesExt

CONSTANTS
  Texts,        \* the fields inspected, unstrung and strung
  Patterns,     \* the operands: what is looked for, delimiters
  Sizes,        \* sizes of receiving fields
  MaxPhrases,   \* bound on the operands of a statement
  MaxPointer    \* WITH POINTER is 0..MaxPointer

ASSUME StringsAssumption ==
  /\ \A t \in Texts \cup Patterns : t \in Seq(Nat) /\ t # <<>>
  /\ Sizes \subseteq Nat \ {0}
  /\ MaxPhrases \in Nat /\ MaxPointer \in Nat

VARIABLES
  stmt, pc,   \* the statement; "idle", "calls", "end", or "astray"
  data,       \* the field inspected, strung into or unstrung, as it is
  text,       \* ... and as it was
  exc,        \* cob_exception_code: "none", "SIZE", "OVERFLOW", "ARGUMENT"
  disturbed,  \* an operand has changed it
  \* INSPECT
  mode, lo, hi, mark, tally,    \* inspect_replacing, _start and _end, _mark
  claims,     \* history: [phrase, at, size] of what each phrase has counted or replaced
  phrases,    \* history: the phrases
  \* STRING and UNSTRING
  pointer,    \* the WITH POINTER field, -1 if there is none
  start,      \* history: the offset to begin with
  offset,     \* string_offset, unstring_offset
  delims,     \* dlm_list; for STRING string_dlm in a list of at most one
  pieces      \* what was strung, or what was cut off: [from, size, by, times]

inspecting == <<mode, lo, hi, mark, tally, claims, phrases>>
stringing  == <<pointer, start, offset, delims, pieces>>
vars       == <<stmt, pc, data, text, exc, disturbed, inspecting, stringing>>

Kinds   == {"ALL", "LEADING", "FIRST", "TRAILING"}
Regions == {"BEFORE", "AFTER"} \X Patterns

TypeOK ==
  /\ stmt \in {"none", "INSPECT", "STRING", "UNSTRING"} /\ pc \in {"idle", "calls", "end", "astray"}
  /\ exc \in {"none", "SIZE", "OVERFLOW", "ARGUMENT"} /\ disturbed \in BOOLEAN
  /\ Len(data) = Len(text)
  /\ mode \in {"TALLYING", "REPLACING", "CONVERTING"}
  /\ DOMAIN mark = DOMAIN text /\ lo \in 1..(Len(text) + 1) /\ hi \in 0..Len(text)
  /\ hi >= lo - 1 /\ tally \in Nat
  /\ pointer \in -1..(MaxPointer + Len(text)) /\ offset \in -1..(MaxPointer + Len(text))

Init ==
  /\ stmt = "none" /\ pc = "idle" /\ exc = "none" /\ disturbed = FALSE
  /\ text \in Texts /\ data = text
  /\ mode = "TALLYING" /\ lo = 1 /\ hi = 0 /\ mark = [i \in DOMAIN text |-> -1]
  /\ tally = 0 /\ claims = {} /\ phrases = <<>>
  /\ pointer = -1 /\ start = 0 /\ offset = 0 /\ delims = <<>> /\ pieces = <<>>

\* An operand is computed before the call: what the call finds in exc is e.
Operand(e) == \/ e = exc /\ UNCHANGED disturbed
              \/ e \in {"none", "ARGUMENT"} /\ disturbed' = TRUE

Running(verb) == pc = "calls" /\ stmt = verb

\* Field s holds pattern d at i, inside i..last.
At(s, d, i, last) == i + Len(d) - 1 <= last /\ SubSeq(s, i, i + Len(d) - 1) = d

FirstAt(s, d, from, last) ==
  LET found == {i \in from..last : At(s, d, i, last)}
  IN IF found = {} THEN 0 ELSE CHOOSE i \in found : \A j \in found : i <= j

(***************************************************************************)
(* INSPECT.                                                                *)
(***************************************************************************)
InspectInit(m) ==
  /\ pc = "idle" /\ pc' = "calls"
  /\ stmt' = "INSPECT" /\ mode' = m /\ exc' = "none"
  /\ UNCHANGED <<data, text, disturbed, lo, hi, mark, tally, claims, phrases, stringing>>

\* cob_inspect_start, before and after: the part that a phrase looks at.
Region(bounds, r) ==
  LET i == FirstAt(data, r[2], bounds[1], bounds[2])
  IN IF r[1] = "BEFORE"
     THEN <<bounds[1], IF i = 0 THEN bounds[2] ELSE i - 1>>
     ELSE <<IF i = 0 THEN bounds[2] + 1 ELSE i + Len(r[2]), bounds[2]>>

PartOf(regions) == FoldLeft(Region, <<1, Len(data)>>, regions)

\* Mutant: what an earlier phrase has taken is looked at again.
Free_Ignored(i, n) == TRUE

Free(i, n) == \A j \in i..(i + n - 1) : mark[j] = -1

\* inspect_common: the places that a phrase counts or replaces.
Found(kind, d, from, last) ==
  LET n == Len(d)
      up[i \in from..(last + 1)] ==
        IF i > last THEN {}
        ELSE IF ~At(data, d, i, last) THEN IF kind = "LEADING" THEN {} ELSE up[i + 1]
        ELSE IF ~Free(i, n) THEN up[i + 1]
        ELSE {i} \cup (IF kind = "FIRST" THEN {} ELSE up[i + n])
      down[i \in (from - n)..(last - n + 1)] ==
        IF i < from \/ ~At(data, d, i, last) THEN {}
        ELSE IF Free(i, n) THEN {i} \cup down[i - n]
        ELSE down[i - 1]
  IN IF last < from \/ last - from + 1 < n THEN {}
     ELSE IF kind = "TRAILING" THEN down[last - n + 1] ELSE up[from]

\* The n-th phrase takes the places P; what it puts there is its number.
Claim(P, n, part, phrase) ==
  LET new == {[phrase |-> Len(phrases) + 1, at |-> i, size |-> n] : i \in P}
  IN /\ claims' = claims \cup new
     /\ phrases' = Append(phrases, phrase)
     /\ lo' = part[1] /\ hi' = part[2]
     /\ mark' = [j \in DOMAIN mark |->
                   IF \E i \in P : j \in i..(i + n - 1)
                   THEN IF mode = "REPLACING" THEN 100 + Len(phrases) ELSE 1
                   ELSE mark[j]]
     /\ tally' = IF mode = "TALLYING" THEN tally + Cardinality(P) ELSE tally

Phrase(kind, d, regions) ==
  LET part == PartOf(regions)
  IN /\ Running("INSPECT") /\ mode # "CONVERTING" /\ Len(phrases) < MaxPhrases
     /\ mode = "TALLYING" => kind # "FIRST"
     /\ Claim(Found(kind, d, part[1], part[2]), Len(d), part, [kind |-> kind, d |-> d, part |-> part])
     /\ UNCHANGED <<stmt, pc, data, text, exc, disturbed, mode, stringing>>

\* REPLACING by an operand of another size is refused.
SizeError ==
  /\ Running("INSPECT") /\ mode = "REPLACING" /\ exc = "none"
  /\ exc' = "SIZE"
  /\ UNCHANGED <<stmt, pc, data, text, disturbed, inspecting, stringing>>

Characters(regions) ==
  LET part == PartOf(regions)
  IN /\ Running("INSPECT") /\ mode # "CONVERTING" /\ Len(phrases) < MaxPhrases
     /\ Claim({i \in part[1]..part[2] : mark[i] = -1}, 1, part, [kind |-> "CHARACTERS", d |-> <<>>, part |-> part])
     /\ UNCHANGED <<stmt, pc, data, text, exc, disturbed, mode, stringing>>

\* One turn of cob_inspect_converting, for the j-th character; the marks start
\* at 1 wherever the part starts.
Converted(from, to, part, s, j) ==
  LET hit == {i \in part[1]..part[2] : s.data[i] = from[j] /\ s.mark[i - part[1] + 1] = -1}
  IN [data |-> [i \in DOMAIN s.data |->
                  IF i \in hit THEN to[IF j > Len(to) THEN Len(to) ELSE j] ELSE s.data[i]],
      mark |-> [i \in DOMAIN s.mark |-> IF i + part[1] - 1 \in hit THEN 1 ELSE s.mark[i]]]

Converting(from, to, regions) ==
  LET part == PartOf(regions)
      s == FoldLeft(LAMBDA r, j : Converted(from, to, part, r, j),
                    [data |-> data, mark |-> mark], [j \in DOMAIN from |-> j])
  IN /\ Running("INSPECT") /\ mode = "CONVERTING" /\ phrases = <<>>
     /\ data' = s.data /\ mark' = s.mark /\ lo' = part[1] /\ hi' = part[2]
     /\ phrases' = <<[kind |-> "CONVERTING", d |-> from, to |-> to]>>
     /\ UNCHANGED <<stmt, pc, text, exc, disturbed, mode, tally, claims, stringing>>

InspectFinish ==
  /\ Running("INSPECT") /\ phrases # <<>>
  /\ pc' = "end"
  /\ data' = [i \in DOMAIN data |-> IF mode = "REPLACING" /\ mark[i] # -1 THEN mark[i] ELSE data[i]]
  /\ UNCHANGED <<stmt, text, exc, disturbed, inspecting, stringing>>

(***************************************************************************)
(* STRING ... DELIMITED BY ... INTO data WITH POINTER pointer.             *)
(***************************************************************************)
Begin(verb, p) ==
  /\ pc = "idle" /\ pc' = "calls"
  /\ stmt' = verb /\ pointer' = p
  /\ offset' = (IF p = -1 THEN 0 ELSE p - 1) /\ start' = offset'
  /\ exc' = IF offset' \in 0..(Len(data) - 1) THEN "none" ELSE "OVERFLOW"
  /\ UNCHANGED <<data, text, disturbed, inspecting, delims, pieces>>

StringInit(p) == Begin("STRING", p)

\* Also without an operand, DELIMITED BY SIZE.
StringDelimited(d) ==
  /\ Running("STRING")
  /\ \E e \in {"none", "OVERFLOW", "ARGUMENT"} : Operand(e) /\ exc' = e
  /\ delims' = IF d = <<>> THEN <<>> ELSE <<d>>
  /\ UNCHANGED <<stmt, pc, data, text, inspecting, pointer, start, offset, pieces>>

\* What is taken of a field that is strung.
Taken(src) ==
  LET i == IF delims = <<>> THEN 0 ELSE FirstAt(src, delims[1], 1, Len(src))
  IN IF i = 0 THEN src ELSE SubSeq(src, 1, i - 1)

Astray ==
  /\ pc' = "astray"
  /\ UNCHANGED <<stmt, data, text, inspecting, stringing>>

Strung(new, room) ==
  /\ data' = [i \in DOMAIN data |->
               IF i > offset /\ i - offset <= Len(new) THEN new[i - offset] ELSE data[i]]
  /\ offset' = offset + IF Len(new) <= room THEN Len(new) ELSE room

StringAppend(src) ==
  /\ Running("STRING") /\ Len(pieces) < MaxPhrases
  /\ \E e \in {"none", "OVERFLOW", "ARGUMENT"} :
       /\ Operand(e)
       /\ \/ /\ e # "none"
             /\ exc' = e
             /\ pieces' = Append(pieces, Taken(src))
             /\ UNCHANGED <<stmt, pc, data, text, inspecting, pointer, start, offset, delims>>
          \/ /\ e = "none" /\ offset \in 0..Len(data)
             /\ Strung(Taken(src), Len(data) - offset)
             /\ exc' = IF Len(Taken(src)) <= Len(data) - offset THEN "none" ELSE "OVERFLOW"
             /\ pieces' = Append(pieces, Taken(src))
             /\ UNCHANGED <<stmt, pc, text, inspecting, pointer, start, delims>>
          \/ e = "none" /\ offset \notin 0..Len(data) /\ exc' = e /\ Astray

StringFinish ==
  /\ Running("STRING") /\ pc' = "end"
  /\ pointer' = IF pointer = -1 THEN -1 ELSE offset + 1
  /\ UNCHANGED <<stmt, data, text, exc, disturbed, inspecting, start, offset, delims, pieces>>

(***************************************************************************)
(* UNSTRING data DELIMITED BY delims INTO ... WITH POINTER pointer.        *)
(***************************************************************************)
UnstringInit(p) == Begin("UNSTRING", p)

UnstringDelimited(d, all) ==
  /\ Running("UNSTRING") /\ pieces = <<>> /\ Len(delims) < MaxPhrases
  /\ \E e \in {"none", "OVERFLOW", "ARGUMENT"} : Operand(e) /\ exc' = e
  /\ delims' = Append(delims, [d |-> d, all |-> all])
  /\ UNCHANGED <<stmt, pc, data, text, inspecting, pointer, start, offset, pieces>>

Hits(p) == {i \in DOMAIN delims : At(data, delims[i].d, p, Len(data))}

\* How often d stands at p, one after the other.
Run(d, p) ==
  LET n == Len(d)
      times[k \in 0..Len(data)] == IF At(data, d, p + k * n, Len(data)) THEN times[k + 1] ELSE k
  IN times[0]

\* Mutant: the last of two delimiters that stand at the same place is taken.
Cut_LastDelimiter(first) ==
  LET stops == {p \in first..Len(data) : Hits(p) # {}}
      p == CHOOSE q \in stops : \A r \in stops : q <= r
      i == CHOOSE j \in Hits(p) : \A k \in Hits(p) : j >= k
  IN IF stops = {} THEN [from |-> first, size |-> Len(data) + 1 - first, by |-> 0, times |-> 0]
     ELSE [from |-> first, size |-> p - first, by |-> i,
           times |-> IF delims[i].all THEN Run(delims[i].d, p) ELSE 1]

\* The piece that begins at first, up to the first delimiter, the first of the list
\* when several stand there.
Cut(first) ==
  LET stops == {p \in first..Len(data) : Hits(p) # {}}
      p == CHOOSE q \in stops : \A r \in stops : q <= r
      i == CHOOSE j \in Hits(p) : \A k \in Hits(p) : j <= k
  IN IF stops = {} THEN [from |-> first, size |-> Len(data) + 1 - first, by |-> 0, times |-> 0]
     ELSE [from |-> first, size |-> p - first, by |-> i,
           times |-> IF delims[i].all THEN Run(delims[i].d, p) ELSE 1]

SizeOf(piece) == piece.size + IF piece.by = 0 THEN 0 ELSE piece.times * Len(delims[piece.by].d)

UnstringInto(size) ==
  /\ Running("UNSTRING") /\ Len(pieces) < MaxPhrases
  /\ \E e \in {"none", "OVERFLOW", "ARGUMENT"} :
       /\ Operand(e)
       /\ exc' = e
       /\ \/ /\ e # "none" \/ offset >= Len(data)
             /\ UNCHANGED <<stmt, pc, data, text, inspecting, stringing>>
          \/ /\ e = "none" /\ offset \in 0..(Len(data) - 1)
             /\ LET rest == Len(data) - offset
                    piece == IF delims # <<>> THEN Cut(offset + 1)
                             ELSE [from |-> offset + 1, size |-> IF size < rest THEN size ELSE rest,
                                   by |-> 0, times |-> 0]
                IN /\ pieces' = Append(pieces, piece)
                   /\ offset' = offset + SizeOf(piece)
             /\ UNCHANGED <<stmt, pc, data, text, inspecting, pointer, start, delims>>
          \/ e = "none" /\ offset < 0 /\ Astray

UnstringFinish ==
  /\ Running("UNSTRING") /\ pc' = "end"
  /\ exc' = IF offset < Len(data) THEN "OVERFLOW" ELSE exc
  /\ pointer' = IF pointer = -1 THEN -1 ELSE offset + 1
  /\ UNCHANGED <<stmt, data, text, disturbed, inspecting, start, offset, delims, pieces>>

-----------------------------------------------------------------------------
RegionLists == {<<>>} \cup {<<r>> : r \in Regions}
Pointers    == -1..MaxPointer

Next ==
  \/ \E m \in {"TALLYING", "REPLACING", "CONVERTING"} : InspectInit(m)
  \/ \E r \in RegionLists : \/ \E kind \in Kinds, d \in Patterns : Phrase(kind, d, r)
                            \/ Characters(r)
                            \/ \E d, e \in Patterns : Converting(d, e, r)
  \/ SizeError \/ InspectFinish
  \/ \E p \in Pointers : StringInit(p) \/ UnstringInit(p)
  \/ \E d \in Patterns \cup {<<>>} : StringDelimited(d)
  \/ \E t \in Patterns : StringAppend(t)
  \/ StringFinish
  \/ \E d \in Patterns, all \in BOOLEAN : UnstringDelimited(d, all)
  \/ \E n \in Sizes : UnstringInto(n)
  \/ UnstringFinish

Spec == Init /\ [][Next]_vars

-----------------------------------------------------------------------------
(***************************************************************************)
(* Properties.                                                             *)
(***************************************************************************)
Covers(c, j) == j \in c.at..(c.at + c.size - 1)

\* However the operands overlap, every character of the field is counted or
\* replaced by one phrase at most, the first that takes it; the marks, the tally
\* and the field in the end say the same.
InspectOnce ==
  stmt = "INSPECT" /\ mode # "CONVERTING" =>
    /\ \A c, e \in claims : c # e => c.at + c.size <= e.at \/ e.at + e.size <= c.at
    /\ \A j \in DOMAIN text : mark[j] = -1 <=> ~\E c \in claims : Covers(c, j)
    /\ mode = "TALLYING" => tally = Cardinality(claims)
    /\ pc = "end" /\ mode = "REPLACING" =>
         \A j \in DOMAIN text :
           data[j] = IF \E c \in claims : Covers(c, j)
                     THEN 99 + (CHOOSE c \in claims : Covers(c, j)).phrase ELSE text[j]

Places(n) == {c.at : c \in {e \in claims : e.phrase = n}}

\* Where d stands in the part on characters that no phrase before n has taken.
Eligible(n, d, part) ==
  {q \in part[1]..part[2] :
     /\ At(text, d, q, part[2])
     /\ \A c \in claims : c.phrase < n => c.at + c.size <= q \/ q + Len(d) <= c.at}

\* A phrase takes what the statement promises: ALL every occurrence from the left
\* that does not overlap one before it, FIRST the first one, LEADING and TRAILING
\* the run at its end of the part, CHARACTERS whatever is left.
InspectExact ==
  \A n \in DOMAIN phrases : stmt = "INSPECT" /\ mode # "CONVERTING" =>
    LET ph == phrases[n]  d == ph.d  part == ph.part  size == Len(d)
        E == Eligible(n, d, part)
    IN CASE ph.kind = "ALL" ->
              /\ Places(n) \subseteq E
              /\ \A q \in E : \E i \in Places(n) : i <= q /\ q < i + size
         [] ph.kind = "FIRST" ->
              Places(n) = {q \in E : \A r \in E : q <= r}
         [] ph.kind = "LEADING" /\ n = 1 ->
              \E m \in 0..Len(text) : /\ Places(n) = {part[1] + k * size : k \in 0..(m - 1)}
                                      /\ Places(n) \subseteq E
                                      /\ part[1] + m * size \notin E
         [] ph.kind = "TRAILING" /\ n = 1 ->
              \E m \in 0..Len(text) : /\ Places(n) = {part[2] + 1 - k * size : k \in 1..m}
                                      /\ Places(n) \subseteq E
                                      /\ part[2] + 1 - (m + 1) * size \notin E
         [] ph.kind \in {"LEADING", "TRAILING"} /\ n > 1 -> Places(n) \subseteq E
         [] ph.kind = "CHARACTERS" ->
              Places(n) = {j \in part[1]..part[2] : \A c \in claims : c.phrase < n => ~Covers(c, j)}

\* CONVERTING maps every character of its part once, by the first of its
\* operand's characters that is equal, also when that is put in elsewhere.
ConvertsOnce ==
  stmt = "INSPECT" /\ mode = "CONVERTING" /\ phrases # <<>> =>
    LET from == phrases[1].d  to == phrases[1].to
    IN \A i \in DOMAIN text :
         data[i] = IF i \in lo..hi /\ \E j \in DOMAIN from : from[j] = text[i]
                   THEN LET j == CHOOSE k \in DOMAIN from :
                                   from[k] = text[i] /\ \A m \in 1..(k - 1) : from[m] # text[i]
                        IN to[IF j > Len(to) THEN Len(to) ELSE j]
                   ELSE text[i]

\* STRING fills the target from its pointer on with as much of what is strung as
\* fits, leaves the rest as it was, and tells an overflow exactly when something
\* did not fit or the pointer was wrong: unless an operand disturbs the code.
StringFills ==
  stmt = "STRING" /\ ~disturbed =>
    LET all  == FlattenSeq(pieces)
        room == Len(data) - start
        put  == IF start \notin 0..(Len(data) - 1) THEN 0
                ELSE IF Len(all) < room THEN Len(all) ELSE room
    IN /\ data = [i \in DOMAIN text |-> IF i - start \in 1..put THEN all[i - start] ELSE text[i]]
       /\ offset = start + put
       /\ exc = "OVERFLOW" <=> put < Len(all) \/ start \notin 0..(Len(data) - 1)

\* UNSTRING cuts the field into what is between delimiters: put together again
\* they are the field from the pointer to the new one; no delimiter is left in a
\* piece, nor after an ALL.
Joined(piece) ==
  SubSeq(text, piece.from, piece.from + piece.size - 1)
    \o (IF piece.by = 0 THEN <<>> ELSE FlattenSeq([k \in 1..piece.times |-> delims[piece.by].d]))

UnstringSplits ==
  stmt = "UNSTRING" /\ pieces # <<>> =>
    /\ FlattenSeq([n \in DOMAIN pieces |-> Joined(pieces[n])]) = SubSeq(text, start + 1, offset)
    /\ \A n \in DOMAIN pieces :
         LET piece == pieces[n]  stop == piece.from + piece.size
         IN delims # <<>> =>
              /\ \A q \in piece.from..(stop - 1) : Hits(q) = {}
              /\ piece.by = 0 => stop = Len(text) + 1
              /\ piece.by # 0 =>
                   /\ \A i \in 1..(piece.by - 1) : i \notin Hits(stop)
                   /\ delims[piece.by].all =>
                        piece.by \notin Hits(piece.from + SizeOf(piece))

\* UNSTRING tells an overflow exactly when something of the field is left, or the
\* pointer was wrong: unless an operand disturbs the code.
OverflowTold ==
  stmt = "UNSTRING" /\ pc = "end" /\ ~disturbed =>
    (exc = "OVERFLOW" <=> offset < Len(text) \/ start \notin 0..(Len(text) - 1))

\* Only an operand that clears the code makes STRING or UNSTRING work outside its
\* field.
StaysInField == pc = "astray" => disturbed

\* INSPECT takes every character once and takes what its phrases promise.
InspectSound == TypeOK /\ InspectOnce /\ InspectExact /\ ConvertsOnce

\* UNSTRING cuts at the delimiters, tells the overflow and stays in its field.
UnstringSound == UnstringSplits /\ OverflowTold /\ StaysInField

\* STRING and UNSTRING move what they promise and report what is left over.
TransfersSound == StringFills /\ UnstringSound
=============================================================================
