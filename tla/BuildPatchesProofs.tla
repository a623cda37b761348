------------------------- MODULE BuildPatchesProofs -------------------------
(***************************************************************************)
(* Why the builds of BuildPatches restore the sources: a replacement is    *)
(* undone by its own reversal, whatever the texts; and the order in which  *)
(* build.sh and the applier go, forward and back, fits the conditions of   *)
(* BuildReversal on the patches and replacements one by one.               *)
(***************************************************************************)
EXTENDS BuildReversal, FiniteSetTheorems, SequenceTheorems, TLAPS

-----------------------------------------------------------------------------
(* Lines *)

\* A function on 1 .. k is a sequence of length k.
LEMMA FunctionIsSeq ==
    ASSUME NEW S, NEW k \in Nat, NEW f \in [1 .. k -> S]
    PROVE  f \in Seq(S) /\ Len(f) = k
<1>1. f \in Seq(S)
  BY SeqDef
<1>2. Len(f) \in Nat /\ DOMAIN f = 1 .. Len(f)
  BY <1>1, LenProperties
<1>3. DOMAIN f = 1 .. k
  OBVIOUS
<1>4. Len(f) = k
  BY <1>2, <1>3
<1> QED  BY <1>1, <1>4

\* Lines and Texts are sequences as long as what they are made of.
LEMMA TextsType ==
    ASSUME NEW lines \in Seq(Line)
    PROVE  /\ Texts(lines) \in Seq(Words)
           /\ Len(Texts(lines)) = Len(lines)
           /\ \A n \in 1 .. Len(lines) : Texts(lines)[n] = lines[n].text
<1>1. Len(lines) \in Nat /\ \A n \in 1 .. Len(lines) : lines[n] \in Line
  BY LenProperties, ElementOfSeq
<1>2. Texts(lines) = [n \in 1 .. Len(lines) |-> lines[n].text]
  BY DEF Texts, Numbered
<1>3. Texts(lines) \in [1 .. Len(lines) -> Words]
  BY <1>1, <1>2 DEF Line
<1> QED  BY <1>1, <1>2, <1>3, FunctionIsSeq

LEMMA LinesType ==
    ASSUME NEW texts \in Seq(Words), NEW eol \in Ends
    PROVE  /\ Lines(texts, eol) \in Seq(Line)
           /\ Len(Lines(texts, eol)) = Len(texts)
           /\ \A n \in 1 .. Len(texts) :
                 Lines(texts, eol)[n] = [text |-> texts[n], eol |-> eol]
           /\ Texts(Lines(texts, eol)) = texts
<1> DEFINE lines == Lines(texts, eol)
<1>1. lines = [n \in 1 .. Len(texts) |-> [text |-> texts[n], eol |-> eol]]
  BY DEF Lines, Numbered
<1>2. Len(texts) \in Nat /\ \A n \in 1 .. Len(texts) : texts[n] \in Words
  BY LenProperties, ElementOfSeq
<1>3. lines \in [1 .. Len(texts) -> Line]
  BY <1>1, <1>2 DEF Line
<1>4. \A n \in 1 .. Len(texts) : lines[n] = [text |-> texts[n], eol |-> eol]
  BY <1>1
<1> HIDE DEF lines
<1>5. lines \in Seq(Line) /\ Len(lines) = Len(texts)
  BY <1>2, <1>3, FunctionIsSeq
<1>6. Texts(lines) \in Seq(Words) /\ Len(Texts(lines)) = Len(texts)
  BY <1>5, TextsType
<1>7. \A n \in 1 .. Len(texts) : Texts(lines)[n] = texts[n]
  <2> TAKE n \in 1 .. Len(texts)
  <2>1. Texts(lines)[n] = lines[n].text
    BY <1>5, TextsType
  <2>2. lines[n] = [text |-> texts[n], eol |-> eol]
    BY <1>4
  <2> QED  BY <2>1, <2>2
<1>8. Texts(lines) = texts
  BY <1>6, <1>7, SeqEqual
<1> QED  BY <1>4, <1>5, <1>8 DEF lines

\* A file that is not empty keeps the line end that it is written with.
LEMMA NewlineOfLines ==
    ASSUME NEW texts \in Seq(Words), texts # <<>>, NEW eol \in Ends
    PROVE  Newline(Lines(texts, eol)) = eol
<1>1. Len(texts) >= 1
  OBVIOUS
<1>2. /\ Len(Lines(texts, eol)) = Len(texts)
      /\ \A n \in 1 .. Len(texts) :
            Lines(texts, eol)[n] = [text |-> texts[n], eol |-> eol]
  BY LinesType
<1>3. \A n \in 1 .. Len(texts) : Lines(texts, eol)[n].eol = eol
  <2> TAKE n \in 1 .. Len(texts)
  <2>1. Lines(texts, eol)[n] = [text |-> texts[n], eol |-> eol]
    BY <1>2
  <2> QED  BY <2>1
<1> QED  BY <1>1, <1>2, <1>3 DEF Newline, Numbered, Ends

LEMMA NewlineType ==
    ASSUME NEW lines PROVE Newline(lines) \in Ends
  BY DEF Newline, Ends

\* What the applier has written it would write again as it is.
LEMMA UniformType ==
    ASSUME NEW lines \in Seq(Line)
    PROVE  /\ Uniform(lines) \in Seq(Line)
           /\ Texts(Uniform(lines)) = Texts(lines)
           /\ Uniform(Uniform(lines)) = Uniform(lines)
<1>1. Texts(lines) \in Seq(Words) /\ Newline(lines) \in Ends
  BY TextsType, NewlineType
<1>2. Uniform(lines) \in Seq(Line) /\ Texts(Uniform(lines)) = Texts(lines)
  BY <1>1, LinesType DEF Uniform
<1>3. CASE Texts(lines) # <<>>
  <2>1. Newline(Uniform(lines)) = Newline(lines)
    BY <1>1, <1>3, NewlineOfLines DEF Uniform
  <2> QED  BY <2>1, <1>2 DEF Uniform
<1>4. CASE Texts(lines) = <<>>
  <2>1. \A eol \in Ends : Lines(<<>>, eol) = <<>>
    BY DEF Lines, Numbered
  <2> QED  BY <2>1, <1>1, <1>2, <1>4, NewlineType DEF Uniform
<1> QED  BY <1>2, <1>3, <1>4

-----------------------------------------------------------------------------
(* A replacement and its reversal *)

IsSlice(slice, s, from, count) ==
    /\ slice \in Seq(Words) /\ Len(slice) = count
    /\ \A q \in 1 .. count : slice[q] = s[from + q]

LEMMA SliceElements ==
    ASSUME NEW s \in Seq(Words), NEW from \in Nat, NEW count \in Nat,
           from + count <= Len(s)
    PROVE  IsSlice(Slice(s, from, count), s, from, count)
<1>1. Len(s) \in Nat /\ \A i \in 1 .. Len(s) : s[i] \in Words
  BY LenProperties, ElementOfSeq
<1> DEFINE first == from + 1
           last == from + count
<1>2. /\ first \in Int /\ last \in Int
      /\ last - first + 1 = count
      /\ ~(first <= last) => count = 0
      /\ \A i \in first .. last : i \in 1 .. Len(s)
  BY <1>1
<1>3. \A q \in 1 .. count : first + q - 1 = from + q
  OBVIOUS
<1>4. Slice(s, from, count) = SubSeq(s, first, last)
  BY DEF Slice
<1> HIDE DEF first, last
<1>5. \A i \in first .. last : s[i] \in Words
  BY <1>1, <1>2
<1>6. /\ SubSeq(s, first, last) \in Seq(Words)
      /\ Len(SubSeq(s, first, last)) = IF first <= last THEN last - first + 1 ELSE 0
      /\ \A i \in 1 .. last - first + 1 : SubSeq(s, first, last)[i] = s[first + i - 1]
  BY <1>2, <1>5, SubSeqProperties
<1> QED  BY <1>2, <1>3, <1>4, <1>6 DEF IsSlice

\* Where part is in s, element by element.
LEMMA Occurs ==
    ASSUME NEW s \in Seq(Words), NEW part \in Seq(Words), NEW n \in Nat
    PROVE  n \in Occurrences(s, part) <=>
             /\ n + Len(part) <= Len(s)
             /\ \A q \in 1 .. Len(part) : s[n + q] = part[q]
<1>1. CASE n + Len(part) <= Len(s)
  <2> DEFINE slice == Slice(s, n, Len(part))
  <2>1. /\ slice \in Seq(Words)
        /\ Len(slice) = Len(part)
        /\ \A q \in 1 .. Len(part) : slice[q] = s[n + q]
    BY <1>1, SliceElements DEF IsSlice
  <2> HIDE DEF slice
  <2>2. slice = part <=> \A q \in 1 .. Len(part) : s[n + q] = part[q]
    BY <2>1, SeqEqual
  <2>3. n \in 0 .. Len(s) - Len(part)
    BY <1>1
  <2> QED  BY <2>2, <2>3, <1>1 DEF Occurrences, slice
<1>2. CASE ~(n + Len(part) <= Len(s))
  BY <1>2 DEF Occurrences
<1> QED  BY <1>1, <1>2

LEMMA Joined ==
    ASSUME NEW s \in Seq(Words), NEW t \in Seq(Words)
    PROVE  /\ s \o t \in Seq(Words) /\ Len(s \o t) = Len(s) + Len(t)
           /\ \A q \in 1 .. Len(s) : (s \o t)[q] = s[q]
           /\ \A q \in 1 .. Len(t) : (s \o t)[Len(s) + q] = t[q]
<1>1. Len(s) \in Nat /\ Len(t) \in Nat
  BY LenProperties
<1>2. /\ s \o t \in Seq(Words) /\ Len(s \o t) = Len(s) + Len(t)
      /\ \A i \in 1 .. Len(s) + Len(t) :
            (s \o t)[i] = IF i <= Len(s) THEN s[i] ELSE t[i - Len(s)]
  BY ConcatProperties
<1>3. \A q \in 1 .. Len(s) : (s \o t)[q] = s[q]
  BY <1>1, <1>2
<1>4. \A q \in 1 .. Len(t) : (s \o t)[Len(s) + q] = t[q]
  <2> TAKE q \in 1 .. Len(t)
  <2>1. Len(s) + q \in 1 .. Len(s) + Len(t) /\ ~(Len(s) + q <= Len(s))
    BY <1>1
  <2>2. (s \o t)[Len(s) + q] = t[Len(s) + q - Len(s)]
    BY <1>2, <2>1
  <2> QED  BY <1>1, <2>2
<1> QED  BY <1>2, <1>3, <1>4

\* The elements of a sequence in which some were replaced.
IsSplice(spliced, s, n, gone, part) ==
    /\ spliced \in Seq(Words)
    /\ Len(spliced) = Len(s) - Len(gone) + Len(part)
    /\ \A q \in 1 .. n : spliced[q] = s[q]
    /\ \A q \in 1 .. Len(part) : spliced[n + q] = part[q]
    /\ \A q \in 1 .. Len(s) - n - Len(gone) :
          spliced[n + Len(part) + q] = s[n + Len(gone) + q]

LEMMA SplicedElements ==
    ASSUME NEW s \in Seq(Words), NEW gone \in Seq(Words), NEW part \in Seq(Words),
           NEW n \in Nat, n + Len(gone) <= Len(s)
    PROVE  IsSplice(Spliced(s, n, Len(gone), part), s, n, gone, part)
<1> DEFINE count == Len(gone)
<1>0. Len(s) \in Nat /\ Len(part) \in Nat /\ count \in Nat /\ n + count <= Len(s)
  BY LenProperties
<1> DEFINE rest == Len(s) - n - count
           head == Slice(s, 0, n)
           tail == Slice(s, n + count, rest)
           start == head \o part
<1>1. rest \in Nat /\ n + count + rest = Len(s)
  BY <1>0
<1>2. head \in Seq(Words) /\ Len(head) = n /\ \A q \in 1 .. n : head[q] = s[0 + q]
  <2>1. 0 + n <= Len(s)
    BY <1>0
  <2>2. IsSlice(head, s, 0, n)
    BY <2>1, SliceElements
  <2> QED  BY <2>2 DEF IsSlice
<1>3. /\ tail \in Seq(Words) /\ Len(tail) = rest
      /\ \A q \in 1 .. rest : tail[q] = s[n + count + q]
  <2> HIDE DEF rest
  <2>1. n + count \in Nat /\ n + count + rest <= Len(s)
    BY <1>0, <1>1
  <2>2. IsSlice(tail, s, n + count, rest)
    BY <2>1, <1>1, SliceElements
  <2> QED  BY <2>2 DEF IsSlice
<1> DEFINE spliced == Spliced(s, n, count, part)
<1>4. spliced = start \o tail
  BY DEF Spliced
<1> HIDE DEF head, tail, start, spliced
<1>5. start = head \o part
  BY DEF start
<1>6. /\ start \in Seq(Words) /\ Len(start) = n + Len(part)
      /\ \A q \in 1 .. n : start[q] = s[q]
      /\ \A q \in 1 .. Len(part) : start[n + q] = part[q]
  <2>1. \A q \in 1 .. n : 0 + q = q
    OBVIOUS
  <2>2. /\ head \o part \in Seq(Words) /\ Len(head \o part) = Len(head) + Len(part)
        /\ \A q \in 1 .. Len(head) : (head \o part)[q] = head[q]
        /\ \A q \in 1 .. Len(part) : (head \o part)[Len(head) + q] = part[q]
    BY <1>2, Joined
  <2> QED  BY <2>1, <2>2, <1>2, <1>5
<1>7. /\ spliced \in Seq(Words) /\ Len(spliced) = Len(start) + Len(tail)
      /\ \A q \in 1 .. Len(start) : spliced[q] = start[q]
      /\ \A q \in 1 .. Len(tail) : spliced[Len(start) + q] = tail[q]
  <2>1. /\ start \o tail \in Seq(Words) /\ Len(start \o tail) = Len(start) + Len(tail)
        /\ \A q \in 1 .. Len(start) : (start \o tail)[q] = start[q]
        /\ \A q \in 1 .. Len(tail) : (start \o tail)[Len(start) + q] = tail[q]
    BY <1>3, <1>6, Joined
  <2> QED  BY <2>1, <1>4
<1>8. Len(spliced) = Len(s) - count + Len(part)
  BY <1>0, <1>1, <1>3, <1>6, <1>7
<1>9. \A q \in 1 .. n : spliced[q] = s[q]
  BY <1>0, <1>6, <1>7
<1>10. \A q \in 1 .. Len(part) : spliced[n + q] = part[q]
  <2> TAKE q \in 1 .. Len(part)
  <2>1. n + q \in 1 .. Len(start)
    BY <1>0, <1>6
  <2> QED  BY <2>1, <1>6, <1>7
<1>11. \A q \in 1 .. rest : spliced[n + Len(part) + q] = s[n + count + q]
  BY <1>0, <1>3, <1>6, <1>7
<1> QED  BY <1>7, <1>8, <1>9, <1>10, <1>11 DEF spliced, IsSplice

\* What was put in for one text is taken out for the other.
LEMMA SplicedBack ==
    ASSUME NEW s \in Seq(Words), NEW old \in Seq(Words), NEW new \in Seq(Words),
           NEW n \in Occurrences(s, old)
    PROVE  /\ Spliced(s, n, Len(old), new) \in Seq(Words)
           /\ n \in Occurrences(Spliced(s, n, Len(old), new), new)
           /\ Spliced(Spliced(s, n, Len(old), new), n, Len(new), old) = s
<1> DEFINE spliced == Spliced(s, n, Len(old), new)
           back == Spliced(spliced, n, Len(new), old)
<1>1. Len(s) \in Nat /\ Len(old) \in Nat /\ Len(new) \in Nat
  BY LenProperties
<1>2. n \in Nat
  BY <1>1 DEF Occurrences
<1>3. n + Len(old) <= Len(s)
  BY <1>2, Occurs
<1>4. \A q \in 1 .. Len(old) : s[n + q] = old[q]
  BY <1>2, Occurs
<1>5. /\ spliced \in Seq(Words)
      /\ Len(spliced) = Len(s) - Len(old) + Len(new)
      /\ \A q \in 1 .. n : spliced[q] = s[q]
      /\ \A q \in 1 .. Len(new) : spliced[n + q] = new[q]
      /\ \A q \in 1 .. Len(s) - n - Len(old) :
            spliced[n + Len(new) + q] = s[n + Len(old) + q]
  <2>1. IsSplice(spliced, s, n, old, new)
    BY <1>2, <1>3, SplicedElements
  <2> HIDE DEF spliced
  <2> QED  BY <2>1 DEF IsSplice
<1>6. n + Len(new) <= Len(spliced)
  <2> HIDE DEF spliced
  <2> QED  BY <1>1, <1>2, <1>3, <1>5
<1>7. /\ back \in Seq(Words)
      /\ Len(back) = Len(spliced) - Len(new) + Len(old)
      /\ \A q \in 1 .. n : back[q] = spliced[q]
      /\ \A q \in 1 .. Len(old) : back[n + q] = old[q]
      /\ \A q \in 1 .. Len(spliced) - n - Len(new) :
            back[n + Len(old) + q] = spliced[n + Len(new) + q]
  <2> HIDE DEF spliced
  <2>1. spliced \in Seq(Words)
    BY <1>5
  <2>2. IsSplice(back, spliced, n, new, old)
    BY <2>1, <1>2, <1>6, SplicedElements
  <2> HIDE DEF back
  <2> QED  BY <2>2 DEF IsSplice
<1> HIDE DEF back, spliced
<1>8. n \in Occurrences(spliced, new)
  BY <1>2, <1>5, <1>6, Occurs
<1>9. Len(back) = Len(s)
  BY <1>1, <1>5, <1>7
<1>10. \A q \in 1 .. Len(s) : back[q] = s[q]
  <2> TAKE q \in 1 .. Len(s)
  <2>1. CASE q <= n
    BY <2>1, <1>2, <1>5, <1>7
  <2>2. CASE n < q /\ q <= n + Len(old)
    <3>1. q - n \in 1 .. Len(old) /\ n + (q - n) = q
      BY <2>2, <1>1, <1>2
    <3>2. back[n + (q - n)] = old[q - n] /\ s[n + (q - n)] = old[q - n]
      BY <3>1, <1>4, <1>7
    <3> QED  BY <3>1, <3>2
  <2>3. CASE n + Len(old) < q
    <3> DEFINE r == q - n - Len(old)
    <3>1. /\ r \in 1 .. Len(s) - n - Len(old)
          /\ n + Len(old) + r = q
          /\ Len(spliced) - n - Len(new) = Len(s) - n - Len(old)
      BY <2>3, <1>1, <1>2, <1>5
    <3>2. /\ back[n + Len(old) + r] = spliced[n + Len(new) + r]
          /\ spliced[n + Len(new) + r] = s[n + Len(old) + r]
      <4> HIDE DEF r
      <4> QED  BY <3>1, <1>5, <1>7
    <3> QED  BY <3>1, <3>2
  <2> QED  BY <2>1, <2>2, <2>3, <1>1, <1>2
<1>11. back = s
  BY <1>5, <1>7, <1>9, <1>10, SeqEqual
<1> QED  BY <1>5, <1>8, <1>11 DEF spliced, back

LEMMA TheOccurrence ==
    ASSUME NEW s \in Seq(Words), NEW part \in Seq(Words),
           Cardinality(Occurrences(s, part)) = 1,
           NEW n \in Occurrences(s, part)
    PROVE  (CHOOSE k \in Occurrences(s, part) : TRUE) = n
<1>1. Len(s) \in Nat /\ Len(part) \in Nat
  BY LenProperties
<1>2. IsFiniteSet(Occurrences(s, part))
  <2>1. IsFiniteSet(0 .. Len(s) - Len(part))
    BY <1>1, FS_Interval
  <2> QED  BY <2>1, FS_Subset DEF Occurrences
<1>3. PICK x : Occurrences(s, part) = {x}
  BY <1>2, FS_Singleton
<1> QED  BY <1>3

\* The lines of a file in which an anchored replacement is made.
LEMMA ReplacedLines ==
    ASSUME NEW lines \in Seq(Line), NEW e \in Replacement, NEW reverse \in BOOLEAN,
           NEW n \in Occurrences(Texts(lines), From(e, reverse)),
           Cardinality(Occurrences(Texts(lines), From(e, reverse))) = 1
    PROVE  LET spliced == Spliced(Texts(lines), n, Len(From(e, reverse)), To(e, reverse))
           IN  /\ Replaced(lines, e, reverse) \in Seq(Line)
               /\ Texts(Replaced(lines, e, reverse)) = spliced
               /\ Newline(Replaced(lines, e, reverse)) = Newline(lines)
               /\ Replaced(lines, e, reverse) = Lines(spliced, Newline(lines))
<1> DEFINE from == From(e, reverse)
           to == To(e, reverse)
           spliced == Spliced(Texts(lines), n, Len(from), to)
<1>1. /\ from \in Seq(Words) /\ to \in Seq(Words) /\ to # <<>>
      /\ Texts(lines) \in Seq(Words) /\ Newline(lines) \in Ends
  BY TextsType, NewlineType DEF From, To, Replacement, Paragraph
<1> HIDE DEF to
<1>2. (CHOOSE k \in Occurrences(Texts(lines), from) : TRUE) = n
  <2> HIDE DEF from
  <2> QED  BY <1>1, TheOccurrence DEF from
<1>3. Replaced(lines, e, reverse) = Lines(spliced, Newline(lines))
  BY <1>2 DEF Replaced, to
<1>4. spliced \in Seq(Words) /\ n \in Occurrences(spliced, to)
  <2> HIDE DEF from
  <2> QED  BY <1>1, SplicedBack DEF from
<1> HIDE DEF spliced, from
<1>5. spliced # <<>>
  <2>1. Len(to) \in Nat /\ Len(to) # 0 /\ Len(spliced) \in Nat
    BY <1>1, <1>4, EmptySeq, LenProperties
  <2>2. n \in 0 .. Len(spliced) - Len(to)
    BY <1>4 DEF Occurrences
  <2>3. Len(spliced) # 0
    BY <2>1, <2>2
  <2> QED  BY <2>3, EmptySeq
<1>6. /\ Lines(spliced, Newline(lines)) \in Seq(Line)
      /\ Texts(Lines(spliced, Newline(lines))) = spliced
  BY <1>1, <1>4, LinesType
<1>7. Newline(Lines(spliced, Newline(lines))) = Newline(lines)
  BY <1>1, <1>4, <1>5, NewlineOfLines
<1> QED  BY <1>3, <1>6, <1>7 DEF spliced, from, to

\* Reversing a replacement gives the file back, but for its line ends: where
\* they were mixed, the applier has written them as one kind.  It is what the
\* comment in replace_one says ("byte-clean"), for a file that was uniform.
THEOREM ReplacementReverses ==
    ASSUME NEW t \in Trees, NEW e \in Replacement, NEW reverse \in BOOLEAN,
           Anchored(t, e, reverse), Anchored(Edited(t, e, reverse), e, ~reverse)
    PROVE  Edited(Edited(t, e, reverse), e, ~reverse) = Rewritten(t, {e.file})
<1> DEFINE lines == t[e.file]
           edited == Replaced(lines, e, reverse)
           texts == Texts(lines)
<1>1. e.file \in Files /\ lines \in Seq(Line) /\ t \in [Files -> Seq(Line)]
  BY DEF Trees, Replacement
<1>2. Edited(t, e, reverse) = [t EXCEPT ![e.file] = edited]
  BY DEF Edited
<1>3. Edited(t, e, reverse)[e.file] = edited
  BY <1>1, <1>2
<1> HIDE DEF edited, lines
<1>4. /\ From(e, ~reverse) = To(e, reverse) /\ To(e, ~reverse) = From(e, reverse)
      /\ From(e, reverse) \in Seq(Words) /\ To(e, reverse) \in Seq(Words)
  BY DEF From, To, Replacement, Paragraph
<1>5. /\ Cardinality(Occurrences(texts, From(e, reverse))) = 1
      /\ Cardinality(Occurrences(Texts(edited), From(e, ~reverse))) = 1
  BY <1>3 DEF Anchored, lines
<1>6. PICK n : n \in Occurrences(texts, From(e, reverse))
  <2>1. Occurrences(texts, From(e, reverse)) # {}
    BY <1>5, FS_EmptySet
  <2> QED  BY <2>1
<1> DEFINE spliced == Spliced(texts, n, Len(From(e, reverse)), To(e, reverse))
<1>7. /\ edited \in Seq(Line) /\ Texts(edited) = spliced
      /\ Newline(edited) = Newline(lines)
  BY <1>1, <1>5, <1>6, ReplacedLines DEF edited
<1>8. texts \in Seq(Words)
  BY <1>1, TextsType
<1>9. /\ n \in Occurrences(spliced, From(e, ~reverse))
      /\ Spliced(spliced, n, Len(From(e, ~reverse)), To(e, ~reverse)) = texts
  BY <1>4, <1>6, <1>8, SplicedBack
<1> HIDE DEF spliced, texts
<1>10. Replaced(edited, e, ~reverse) = Lines(texts, Newline(lines))
  <2> SUFFICES ASSUME NEW other \in BOOLEAN, other = ~reverse
               PROVE  Replaced(edited, e, other) = Lines(texts, Newline(lines))
    OBVIOUS
  <2>1. /\ n \in Occurrences(Texts(edited), From(e, other))
        /\ Cardinality(Occurrences(Texts(edited), From(e, other))) = 1
        /\ Spliced(Texts(edited), n, Len(From(e, other)), To(e, other)) = texts
    BY <1>5, <1>7, <1>9
  <2>2. Replaced(edited, e, other)
          = Lines(Spliced(Texts(edited), n, Len(From(e, other)), To(e, other)), Newline(edited))
    BY <1>7, <2>1, ReplacedLines
  <2> QED  BY <1>7, <2>1, <2>2
<1>11. Lines(texts, Newline(lines)) = Uniform(lines)
  BY DEF Uniform, texts
<1> DEFINE back == Edited(Edited(t, e, reverse), e, ~reverse)
<1>12. back = [Edited(t, e, reverse) EXCEPT ![e.file] = Uniform(lines)]
  BY <1>3, <1>10, <1>11 DEF Edited
<1>13. back = [f \in Files |-> IF f = e.file THEN Uniform(lines) ELSE t[f]]
  BY <1>1, <1>2, <1>12
<1> QED  BY <1>13 DEF Rewritten, lines

-----------------------------------------------------------------------------
(* Trees that differ in line ends *)

LEMMA AlikeToItself ==
    ASSUME NEW t \in Trees
    PROVE  t \in AlikeTo(t)
<1>1. Rewritten(t, {}) = t
  BY DEF Rewritten, Trees
<1> QED  BY <1>1 DEF AlikeTo

LEMMA RewrittenTwice ==
    ASSUME NEW t \in Trees, NEW F, NEW G
    PROVE  Rewritten(Rewritten(t, F), G) = Rewritten(t, F \union G)
<1>1. \A f \in Files : Uniform(Uniform(t[f])) = Uniform(t[f])
  BY UniformType DEF Trees
<1>2. \A f \in Files : Rewritten(t, F)[f] = IF f \in F THEN Uniform(t[f]) ELSE t[f]
  BY DEF Rewritten
<1>3. \A f \in Files : (IF f \in G THEN Uniform(Rewritten(t, F)[f]) ELSE Rewritten(t, F)[f])
                         = IF f \in F \union G THEN Uniform(t[f]) ELSE t[f]
  BY <1>1, <1>2
<1> QED  BY <1>3 DEF Rewritten

LEMMA AlikeToAlike ==
    ASSUME NEW t \in Trees, NEW u \in AlikeTo(t), NEW v \in AlikeTo(u)
    PROVE  v \in AlikeTo(t)
<1> DEFINE EditedFiles == {Edits[n].file : n \in Numbered(Edits)}
<1>1. PICK F \in SUBSET EditedFiles : u = Rewritten(t, F)
  BY DEF AlikeTo
<1>2. PICK G \in SUBSET EditedFiles : v = Rewritten(u, G)
  BY DEF AlikeTo
<1>3. v = Rewritten(t, F \union G)
  BY <1>1, <1>2, RewrittenTwice
<1>4. F \union G \in SUBSET EditedFiles
  OBVIOUS
<1> QED  BY <1>3, <1>4 DEF AlikeTo

LEMMA AlikeHasSameTexts ==
    ASSUME NEW t \in Trees, NEW u \in AlikeTo(t)
    PROVE  SameTexts(u, t)
<1>1. PICK F : u = Rewritten(t, F)
  BY DEF AlikeTo
<1>2. \A f \in Files : Texts(Uniform(t[f])) = Texts(t[f])
  BY UniformType DEF Trees
<1> QED  BY <1>1, <1>2 DEF SameTexts, Rewritten

LEMMA AlikeToCheckout ==
    ASSUME NEW t \in Checkouts, NEW u \in AlikeTo(t)
    PROVE  u = t
<1>1. PICK F : u = Rewritten(t, F)
  BY DEF AlikeTo
<1>2. t \in Trees /\ \A f \in Files : Uniform(t[f]) = t[f]
  BY PatchAssumption, ReversalAssumption DEF CheckoutClean
<1> QED  BY <1>1, <1>2 DEF Rewritten, Trees

-----------------------------------------------------------------------------
(* The applier's replacements, made and undone in the same order *)

\* The trees c[i], ..., c[j] that begin like t and have one more replacement
\* each, in the order of main: the first i have been undone, or never made.
Chain(c, i, j, t) ==
    /\ i \in 0 .. Len(Edits) /\ j \in i .. Len(Edits)
    /\ c \in [i .. j -> Work]
    /\ c[i] \in AlikeTo(t)
    /\ \A l \in i .. j : Made(c[l]) = (i + 1) .. l
    /\ \A l \in (i + 1) .. j :
          Anchored(c[l - 1], Edits[l], FALSE) /\ c[l] = Done(c[l - 1], l)

LEMMA EditsType ==
    /\ Len(Edits) \in Nat
    /\ Numbered(Edits) = 1 .. Len(Edits)
    /\ \A n \in Numbered(Edits) : Edits[n] \in Replacement
  BY PatchAssumption, LenProperties, ElementOfSeq DEF Numbered

\* The applier goes on.
LEMMA ChainGrows ==
    ASSUME NEW t, NEW j, NEW c, Chain(c, 0, j, t), j < Len(Edits),
           Anchored(c[j], Edits[j + 1], FALSE)
    PROVE  \E d : Chain(d, 0, j + 1, t) /\ d[j + 1] = Done(c[j], j + 1)
<1> DEFINE d == [l \in 0 .. j + 1 |-> IF l = j + 1 THEN Done(c[j], j + 1) ELSE c[l]]
<1>1. /\ Len(Edits) \in Nat /\ j \in 0 .. Len(Edits) /\ j + 1 \in Numbered(Edits)
  BY EditsType DEF Chain
<1>2. c[j] \in Work /\ Made(c[j]) = 1 .. j
  BY <1>1 DEF Chain
<1>3. j + 1 \notin Made(c[j])
  BY <1>1, <1>2
<1>4. Done(c[j], j + 1) \in Work /\ Made(Done(c[j], j + 1)) = 1 .. (j + 1)
  <2>1. /\ Done(c[j], j + 1) \in Work
        /\ Made(Done(c[j], j + 1)) = Made(c[j]) \union {j + 1}
    BY <1>1, <1>2, <1>3, ReversalAssumption DEF ReplacementIndependent
  <2>2. (1 .. j) \union {j + 1} = 1 .. (j + 1)
    BY <1>1
  <2> QED  BY <2>1, <2>2, <1>2
<1>5. /\ \A l \in 0 .. j : d[l] = c[l]
      /\ d[j + 1] = Done(c[j], j + 1)
  BY <1>1
<1>6. d \in [0 .. j + 1 -> Work]
  BY <1>1, <1>4 DEF Chain
<1> HIDE DEF d
<1>7. \A l \in 0 .. j + 1 : Made(d[l]) = (0 + 1) .. l
  <2> TAKE l \in 0 .. j + 1
  <2>1. CASE l = j + 1
    BY <2>1, <1>4, <1>5
  <2>2. CASE l # j + 1
    <3>1. l \in 0 .. j
      BY <2>2, <1>1
    <3> QED  BY <3>1, <1>5 DEF Chain
  <2> QED  BY <2>1, <2>2
<1>8. \A l \in (0 + 1) .. (j + 1) :
         Anchored(d[l - 1], Edits[l], FALSE) /\ d[l] = Done(d[l - 1], l)
  <2> TAKE l \in (0 + 1) .. (j + 1)
  <2>1. CASE l = j + 1
    <3>1. l - 1 = j /\ d[j] = c[j]
      BY <2>1, <1>1, <1>5
    <3> QED  BY <2>1, <3>1, <1>5
  <2>2. CASE l # j + 1
    <3>1. l \in (0 + 1) .. j /\ l - 1 \in 0 .. j /\ l \in 0 .. j
      BY <2>2, <1>1
    <3>2. Anchored(c[l - 1], Edits[l], FALSE) /\ c[l] = Done(c[l - 1], l)
      BY <3>1 DEF Chain
    <3> QED  BY <3>1, <3>2, <1>5
  <2> QED  BY <2>1, <2>2
<1>9. d[0] \in AlikeTo(t) /\ j + 1 \in 0 .. Len(Edits)
  BY <1>1, <1>5 DEF Chain
<1>10. Chain(d, 0, j + 1, t)
  BY <1>1, <1>6, <1>7, <1>8, <1>9 DEF Chain
<1> QED  BY <1>5, <1>10

\* The tree holds the replacement that is next to be undone, or none at all.
LEMMA ChainHolds ==
    ASSUME NEW t, NEW i, NEW j, NEW c, Chain(c, i, j, t)
    PROVE  i < Len(Edits) /\ Anchored(c[j], Edits[i + 1], TRUE) <=> i < j
<1>1. Len(Edits) \in Nat /\ i \in 0 .. Len(Edits) /\ j \in i .. Len(Edits)
  BY EditsType DEF Chain
<1>2. Made(c[j]) = (i + 1) .. j
  BY <1>1 DEF Chain
<1>3. i < Len(Edits) => i + 1 \in Numbered(Edits)
  BY <1>1, EditsType
<1>4. i < Len(Edits) => (Anchored(c[j], Edits[i + 1], TRUE) <=> i + 1 \in (i + 1) .. j)
  BY <1>2, <1>3 DEF Made
<1>5. i + 1 \in (i + 1) .. j <=> i < j
  BY <1>1
<1>6. i < j => i < Len(Edits)
  BY <1>1
<1> QED  BY <1>4, <1>5, <1>6, Zenon

\* The trap undoes the first replacement that is left: the others stay as
\* they were made, and the tree they were made of comes back.
LEMMA ChainShrinks ==
    ASSUME NEW t \in Trees, NEW i, NEW j, NEW c, Chain(c, i, j, t), i < j
    PROVE  \E d : Chain(d, i + 1, j, t) /\ d[j] = Undone(c[j], i + 1)
<1> DEFINE k == i + 1
           d == [l \in k .. j |-> Undone(c[l], k)]
<1>1. /\ Len(Edits) \in Nat /\ i \in 0 .. Len(Edits) /\ j \in i .. Len(Edits)
      /\ k \in Numbered(Edits) /\ k \in 0 .. Len(Edits) /\ j \in k .. Len(Edits)
      /\ k - 1 = i
  BY EditsType DEF Chain
<1>2. /\ \A l \in k .. j : l \in i .. j /\ l - 1 \in i .. j /\ l \in Numbered(Edits)
      /\ \A l \in (k + 1) .. j : l \in k .. j /\ l - 1 \in k .. j
  BY <1>1, EditsType
<1>3. /\ \A l \in i .. j : c[l] \in Work /\ Made(c[l]) = k .. l
      /\ \A l \in k .. j : Anchored(c[l - 1], Edits[l], FALSE) /\ c[l] = Done(c[l - 1], l)
      /\ c[i] \in AlikeTo(t)
  BY DEF Chain
<1>4. \A l \in k .. j : d[l] = Undone(c[l], k)
  OBVIOUS
<1>5. \A l \in k .. j : Undone(c[l], k) \in Work /\ Made(Undone(c[l], k)) = (k + 1) .. l
  <2> TAKE l \in k .. j
  <2>1. c[l] \in Work /\ Made(c[l]) = k .. l
    BY <1>2, <1>3
  <2>2. k \in k .. l /\ (k .. l) \ {k} = (k + 1) .. l
    BY <1>1
  <2> HIDE DEF k
  <2> QED  BY <2>1, <2>2, <1>1, ReversalAssumption DEF ReplacementIndependent
<1>6. d \in [k .. j -> Work]
  BY <1>5
<1> HIDE DEF d
<1>7. \A l \in k .. j : Made(d[l]) = (k + 1) .. l
  BY <1>4, <1>5
<1>8. d[k] \in AlikeTo(t)
  <2>1. k \in k .. j /\ k \in i .. j /\ i \in i .. j
    BY <1>1, <1>2
  <2> HIDE DEF k
  <2>2. c[i] \in Work /\ c[k] \in Work
    BY <2>1, <1>3
  <2>3. c[i] \in Trees
    BY <2>2, ReversalAssumption
  <2>4. Anchored(c[i], Edits[k], FALSE) /\ c[k] = Done(c[i], k)
    BY <2>1, <1>1, <1>3
  <2>5. k \in Made(c[k])
    BY <2>1, <1>3
  <2>6. Anchored(Edited(c[i], Edits[k], FALSE), Edits[k], TRUE)
    BY <2>4, <2>5 DEF Made, Done
  <2>7. Edits[k] \in Replacement
    BY <1>1, EditsType
  <2>8. Edited(Edited(c[i], Edits[k], FALSE), Edits[k], ~FALSE) = Rewritten(c[i], {Edits[k].file})
    BY <2>3, <2>4, <2>6, <2>7, ReplacementReverses
  <2>9. Undone(c[k], k) \in AlikeTo(c[i])
    BY <2>4, <2>8, <1>1 DEF Undone, Done, AlikeTo
  <2> QED  BY <2>1, <2>9, <1>3, <1>4, AlikeToAlike
<1>9. \A l \in (k + 1) .. j :
         Anchored(d[l - 1], Edits[l], FALSE) /\ d[l] = Done(d[l - 1], l)
  <2> TAKE l \in (k + 1) .. j
  <2>1. l \in k .. j /\ l - 1 \in k .. j /\ l - 1 \in i .. j /\ l \in Numbered(Edits)
    BY <1>2
  <2>2. /\ c[l - 1] \in Work /\ Made(c[l - 1]) = k .. (l - 1)
        /\ Anchored(c[l - 1], Edits[l], FALSE) /\ c[l] = Done(c[l - 1], l)
    BY <2>1, <1>3
  <2>3. k \in Made(c[l - 1]) /\ l \notin Made(c[l - 1])
    BY <2>1, <2>2, <1>1
  <2> HIDE DEF k
  <2>4. /\ Anchored(Undone(c[l - 1], k), Edits[l], FALSE)
        /\ Undone(Done(c[l - 1], l), k) = Done(Undone(c[l - 1], k), l)
    BY <2>1, <2>2, <2>3, ReversalAssumption DEF ReplacementIndependent
  <2> QED  BY <2>1, <2>2, <2>4, <1>4
<1>10. Chain(d, k, j, t)
  <2> HIDE DEF k
  <2> QED  BY <1>1, <1>6, <1>7, <1>8, <1>9 DEF Chain
<1>11. d[j] = Undone(c[j], k)
  BY <1>1, <1>4
<1> QED  BY <1>10, <1>11

-----------------------------------------------------------------------------
(* A git apply, file by file *)

LEMMA PatchesType ==
    /\ Len(Patches) \in Nat
    /\ Numbered(Patches) = 1 .. Len(Patches)
    /\ 0 \in 0 .. Len(Patches) /\ Len(Patches) \in 0 .. Len(Patches)
  BY PatchAssumption, LenProperties DEF Numbered

LEMMA HalfwayNone ==
    ASSUME NEW t \in Trees, NEW n, NEW reverse
    PROVE  Halfway(t, n, {}, reverse) = t
  BY DEF Halfway, Trees

LEMMA HalfwayAll ==
    ASSUME NEW t \in Trees, NEW n, NEW reverse
    PROVE  Halfway(t, n, Touched(Patches[n]), reverse) = Patched(t, Patches[n], reverse)
  BY DEF Halfway, Trees, Patched

\* One more file, of the lines that the git apply found in it.
WritesOneMore(h, t, n, F, f, reverse) ==
    [h EXCEPT ![f] = Applied(h[f], Patches[n], f, reverse)] = Halfway(t, n, F \union {f}, reverse)

LEMMA HalfwayMore ==
    ASSUME NEW t \in Trees, NEW n, NEW reverse, NEW F, NEW f \in Touched(Patches[n]), f \notin F,
           NEW h, h = Halfway(t, n, F, reverse)
    PROVE  WritesOneMore(h, t, n, F, f, reverse)
<1>1. f \in Files
  BY DEF Touched
<1>2. h[f] = t[f]
  BY <1>1 DEF Halfway
<1>3. Patched(t, Patches[n], reverse)[f] = Applied(t[f], Patches[n], f, reverse)
  BY <1>1 DEF Patched
<1>4. Halfway(t, n, F \union {f}, reverse)
        = [g \in Files |-> IF g = f THEN Applied(t[f], Patches[n], f, reverse)
                           ELSE h[g]]
  BY <1>3 DEF Halfway
<1>5. h = [g \in Files |-> h[g]]
  BY DEF Halfway
<1> QED  BY <1>1, <1>2, <1>4, <1>5 DEF WritesOneMore

\* The applier has made what the tree shows, once.
Count(t) == [n \in Numbered(Edits) |-> IF n \in Made(t) THEN 1 ELSE 0]

\* The running git apply began with the tree t.
Writing(t, reverse) ==
    /\ unwritten \subseteq Touched(Patches[next])
    /\ tree = Halfway(t, next, Touched(Patches[next]) \ unwritten, reverse)

LEMMA WritingBegins ==
    ASSUME NEW reverse, tree \in Trees, tree' = tree, unwritten' = Touched(Patches[next'])
    PROVE  Writing(tree, reverse)'
<1> PICK n : n = next'
  OBVIOUS
<1>1. Touched(Patches[n]) \ Touched(Patches[n]) = {}
  OBVIOUS
<1>2. Halfway(tree, n, Touched(Patches[n]) \ Touched(Patches[n]), reverse) = tree
  BY <1>1, HalfwayNone
<1> QED  BY <1>2 DEF Writing

LEMMA WritingGoesOn ==
    ASSUME NEW t \in Trees, NEW reverse, Writing(t, reverse), NEW f \in unwritten,
           tree' = [tree EXCEPT ![f] = Applied(tree[f], Patches[next], f, reverse)],
           unwritten' = unwritten \ {f}, next' = next
    PROVE  Writing(t, reverse)'
<1> PICK F : F = Touched(Patches[next]) \ unwritten
  OBVIOUS
<1>1. f \in Touched(Patches[next]) /\ f \notin F
  BY DEF Writing
<1>2. tree = Halfway(t, next, F, reverse)
  BY DEF Writing
<1>3. tree' = Halfway(t, next, F \union {f}, reverse)
  <2>1. WritesOneMore(tree, t, next, F, f, reverse)
    BY <1>1, <1>2, HalfwayMore
  <2> QED  BY <2>1 DEF WritesOneMore
<1>4. /\ Touched(Patches[next]) \ (unwritten \ {f}) = F \union {f}
      /\ unwritten \ {f} \subseteq Touched(Patches[next])
  BY <1>1 DEF Writing
<1> QED  BY <1>3, <1>4 DEF Writing

LEMMA WritingEnds ==
    ASSUME NEW t \in Trees, NEW reverse, Writing(t, reverse), unwritten = {}
    PROVE  tree = Patched(t, Patches[next], reverse)
<1>1. Touched(Patches[next]) \ {} = Touched(Patches[next])
  OBVIOUS
<1> QED  BY <1>1, HalfwayAll DEF Writing

LEMMA WritingNone ==
    ASSUME NEW t \in Trees, NEW reverse, Writing(t, reverse),
           unwritten = Touched(Patches[next])
    PROVE  tree = t
<1>1. Touched(Patches[next]) \ Touched(Patches[next]) = {}
  OBVIOUS
<1> QED  BY <1>1, HalfwayNone DEF Writing

LEMMA SourcesAreTrees == Sources \subseteq Trees /\ Left \subseteq Sources
  BY ReversalAssumption

LEMMA WorkIsSources == Work \subseteq Sources
  BY ReversalAssumption

LEMMA AlikeSources == \A t \in Sources : AlikeTo(t) \subseteq Sources /\ t \in AlikeTo(t)
  BY SourcesAreTrees, AlikeToItself, ReversalAssumption

\* What a git apply may leave, forward and back.
LEMMA HalfwayLeft ==
    ASSUME NEW n \in Numbered(Patches), NEW F, F \subseteq Touched(Patches[n])
    PROVE  /\ \A t \in Sources : Check(t, Patches[n], FALSE) =>
                 Halfway(t, n, F, FALSE) \in Left /\ Made(Halfway(t, n, F, FALSE)) = Made(t)
           /\ \A t \in Left : Check(t, Patches[n], TRUE) =>
                 Halfway(t, n, F, TRUE) \in Left /\ Made(Halfway(t, n, F, TRUE)) = Made(t)
  BY ReversalAssumption DEF PatchLeavesSources

\* So does one more file of it.
LEMMA OneMoreLeft ==
    ASSUME NEW t, NEW reverse \in BOOLEAN, t \in IF reverse THEN Left ELSE Sources,
           next \in Numbered(Patches), next' = next, Check(t, Patches[next], reverse),
           Writing(t, reverse), Writing(t, reverse)', made = Count(tree), made' = made
    PROVE  tree' \in Sources /\ made' = Count(tree')
<1> PICK n : n = next
  OBVIOUS
<1> PICK F : F = Touched(Patches[n]) \ unwritten
  OBVIOUS
<1> PICK G : G = Touched(Patches[n]) \ unwritten'
  OBVIOUS
<1>1. F \subseteq Touched(Patches[n]) /\ G \subseteq Touched(Patches[n])
  OBVIOUS
<1>2. tree = Halfway(t, n, F, reverse) /\ tree' = Halfway(t, n, G, reverse)
  BY DEF Writing
<1>3. Made(Halfway(t, n, F, reverse)) = Made(t)
  <2>1. CASE reverse = FALSE
    BY <1>1, <2>1, HalfwayLeft
  <2>2. CASE reverse = TRUE
    BY <1>1, <2>2, HalfwayLeft
  <2> QED  BY <2>1, <2>2
<1>4. Made(Halfway(t, n, G, reverse)) = Made(t) /\ Halfway(t, n, G, reverse) \in Left
  <2>1. CASE reverse = FALSE
    BY <1>1, <2>1, HalfwayLeft
  <2>2. CASE reverse = TRUE
    BY <1>1, <2>2, HalfwayLeft
  <2> QED  BY <2>1, <2>2
<1>5. Made(tree') = Made(tree) /\ tree' \in Left
  BY <1>2, <1>3, <1>4
<1> QED  BY <1>5, SourcesAreTrees DEF Count

LEMMA PatchedLeft ==
    ASSUME NEW n \in Numbered(Patches), NEW t \in Sources, Check(t, Patches[n], FALSE)
    PROVE  Patched(t, Patches[n], FALSE) \in Left
<1>1. Halfway(t, n, Touched(Patches[n]), FALSE) \in Left
  BY HalfwayLeft
<1>2. Halfway(t, n, Touched(Patches[n]), FALSE) = Patched(t, Patches[n], FALSE)
  BY SourcesAreTrees, HalfwayAll
<1> QED  BY <1>1, <1>2

-----------------------------------------------------------------------------
(* The inductive invariant *)

\* g[n] is the tree that the build had after its first n patches.
Came(g) ==
    /\ g \in [0 .. Len(Patches) -> Sources] /\ g[0] = found
    /\ \A n \in Numbered(Patches) :
          IF n \in applied
          THEN Check(g[n - 1], Patches[n], FALSE) /\ g[n] = Patched(g[n - 1], Patches[n], FALSE)
          ELSE g[n] = g[n - 1]

\* Patch next is to come; u is the tree without it.
Upto(g, u) ==
    /\ next \in 1 .. Len(Patches) + 1 /\ handoff = FALSE
    /\ applied \subseteq 1 .. (next - 1)
    /\ u \in Passed[next - 1]
    /\ \A n \in next - 1 .. Len(Patches) : g[n] = u

InPatching(g) == at = "patching" => Upto(g, tree)

InApplying(g) ==
    at = "applying" =>
        /\ next \in Numbered(Patches)
        /\ \E u \in Sources :
              Upto(g, u) /\ Check(u, Patches[next], FALSE) /\ Writing(u, FALSE)

InEditing(g) ==
    at = "editing" =>
        /\ next \in 1 .. Len(Edits) + 1 /\ handoff = FALSE
        /\ \E c : Chain(c, 0, next - 1, g[Len(Patches)]) /\ c[next - 1] = tree

InBuilding(g) ==
    at = "building" =>
        /\ handoff = TRUE
        /\ \E j, c : Chain(c, 0, j, g[Len(Patches)]) /\ c[j] = tree

InUnediting(g) ==
    at = "unediting" =>
        /\ next \in 1 .. Len(Edits) + 1
        /\ \E j, c : Chain(c, next - 1, j, g[Len(Patches)]) /\ c[j] = tree

InUnpatching(g) ==
    at = "unpatching" => next \in 0 .. Len(Patches) /\ tree \in AlikeTo(g[next])

InReversing(g) ==
    at = "reversing" =>
        /\ next \in Numbered(Patches) /\ next \in applied
        /\ \E u \in AlikeTo(g[next]) : Writing(u, TRUE)

Phases(g) ==
    /\ InPatching(g) /\ InApplying(g) /\ InEditing(g) /\ InBuilding(g)
    /\ InUnediting(g) /\ InUnpatching(g) /\ InReversing(g)

\* After an interrupt within a git apply the trap takes out what it can, of a
\* tree that this build did not have before.
LeftBehind ==
    /\ at \in {"unpatching", "reversing", "idle"}
    /\ at # "reversing" => tree \in Left
    /\ at = "reversing" =>
          /\ next \in Numbered(Patches)
          /\ \E u \in Left : Check(u, Patches[next], TRUE) /\ Writing(u, TRUE)

Under(g) == Came(g) /\ Phases(g)

Restorable ==
    /\ tree \in Sources /\ made = Count(tree)
    /\ left => LeftBehind
    /\ at = "idle" /\ ended /\ ~left => found \in Sources /\ tree \in AlikeTo(found)
    /\ at # "idle" /\ ~left => \E g : Under(g)

Places == {"idle", "patching", "applying", "editing", "building", "unediting", "unpatching",
           "reversing"}

Inv ==
    /\ at \in Places
    /\ torn \in BOOLEAN /\ left \in BOOLEAN
    /\ ~torn => Restorable

\* On the way forward, and while the applier's work is undone.
LEMMA NothingLeft ==
    ASSUME Inv, ~torn, at \in {"patching", "applying", "editing", "building", "unediting"}
    PROVE  /\ ~left /\ left = FALSE
           /\ tree \in Sources /\ made = Count(tree)
           /\ \E g : Under(g)
<1>1. Restorable
  BY DEF Inv
<1>2. ~left
  BY <1>1, Zenon DEF Restorable, LeftBehind
<1>3. left = FALSE
  BY <1>2 DEF Inv
<1> QED  BY <1>1, <1>2, <1>3 DEF Restorable

\* The state after a step that leaves no git apply's work behind.
LEMMA Restores ==
    ASSUME NEW g, Under(g)', tree' \in Sources, made' = Count(tree'), left' = FALSE,
           at' # "idle"
    PROVE  Restorable'
  BY DEF Restorable

LEMMA InitInv == Init => Inv
<1> SUFFICES ASSUME Init PROVE Inv
  OBVIOUS
<1>1. tree \in Sources /\ Made(tree) = {}
  BY ReversalAssumption DEF Init, CheckoutClean
<1>2. made = Count(tree)
  BY <1>1 DEF Init, NoneMade, Count
<1> QED  BY <1>1, <1>2 DEF Init, Inv, Restorable, Places

LEMMA StartStep == ASSUME Inv, Start PROVE Inv'
<1>1. /\ at = "idle" /\ at' = "patching" /\ next' = 1 /\ applied' = {} /\ handoff' = FALSE
      /\ found' = tree /\ tree' = tree /\ torn' = torn /\ left' = FALSE /\ made' = made
  BY DEF Start, Goto
<1> SUFFICES ASSUME ~torn PROVE Restorable'
  BY <1>1 DEF Inv, Places
<1>2. tree \in Sources /\ made = Count(tree)
  BY DEF Inv, Restorable
<1> PICK g : g = [n \in 0 .. Len(Patches) |-> tree]
  OBVIOUS
<1>3. Came(g)'
  <2>1. g \in [0 .. Len(Patches) -> Sources] /\ g[0] = tree
    BY <1>2, PatchesType
  <2>2. \A n \in Numbered(Patches) : g[n] = g[n - 1]
    BY PatchesType
  <2> QED  BY <1>1, <2>1, <2>2 DEF Came
<1>4. InPatching(g)'
  <2>1. tree \in Passed[0]
    BY <1>2, ReversalAssumption
  <2>2. \A n \in 0 .. Len(Patches) : g[n] = tree
    OBVIOUS
  <2>3. next' \in 1 .. Len(Patches) + 1 /\ next' - 1 = 0
    BY <1>1, PatchesType
  <2> QED  BY <1>1, <2>1, <2>2, <2>3 DEF InPatching, Upto
<1>5. Phases(g)'
  BY <1>1, <1>4 DEF Phases, InApplying, InEditing, InBuilding, InUnediting, InUnpatching,
                    InReversing
<1> QED  BY <1>1, <1>2, <1>3, <1>5, Restores DEF Under

LEMMA StartPatchStep == ASSUME Inv, StartPatch PROVE Inv'
<1>1. /\ at = "patching" /\ at' = "applying" /\ next' = next
      /\ next \in Numbered(Patches) /\ Check(tree, Patches[next], FALSE)
      /\ unwritten' = Touched(Patches[next])
      /\ tree' = tree /\ applied' = applied /\ handoff' = handoff
      /\ torn' = torn /\ left' = left /\ made' = made /\ found' = found
  BY DEF StartPatch, Patching, Goto, flags, history
<1> SUFFICES ASSUME ~torn PROVE Restorable'
  BY <1>1 DEF Inv, Places
<1>2. /\ left = FALSE /\ tree \in Sources /\ made = Count(tree)
  BY <1>1, NothingLeft
<1>3. PICK g : Under(g)
  BY <1>1, NothingLeft
<1>4. Came(g)'
  BY <1>1, <1>3 DEF Under, Came
<1>5. InApplying(g)'
  <2>1. Upto(g, tree)'
    BY <1>1, <1>3 DEF Under, Phases, InPatching, Upto
  <2>2. Writing(tree, FALSE)'
    BY <1>1, <1>2, SourcesAreTrees, WritingBegins
  <2> QED  BY <2>1, <2>2, <1>1, <1>2 DEF InApplying
<1>6. Phases(g)'
  BY <1>1, <1>5 DEF Phases, InPatching, InEditing, InBuilding, InUnediting, InUnpatching,
                    InReversing
<1> QED  BY <1>1, <1>2, <1>4, <1>6, Restores DEF Under

\* Forward, of a tree with or without the work of an earlier build.
LEMMA WriteForward == ASSUME Inv, WriteFile, at = "applying" PROVE Inv'
<1> PICK f \in unwritten :
        /\ tree' = [tree EXCEPT ![f] = Applied(tree[f], Patches[next], f, at = "reversing")]
        /\ unwritten' = unwritten \ {f}
  BY DEF WriteFile
<1>1. /\ at' = "applying" /\ next' = next /\ (at = "reversing") = FALSE
      /\ applied' = applied /\ handoff' = handoff
      /\ torn' = torn /\ left' = left /\ made' = made /\ found' = found
  BY DEF WriteFile, flags, history
<1> SUFFICES ASSUME ~torn PROVE Restorable'
  BY <1>1 DEF Inv, Places
<1>2. /\ left = FALSE /\ made = Count(tree)
  BY NothingLeft
<1>3. PICK g : Under(g)
  BY NothingLeft
<1>4. PICK u \in Sources : Upto(g, u) /\ Check(u, Patches[next], FALSE) /\ Writing(u, FALSE)
  BY <1>3 DEF Under, Phases, InApplying
<1>5. next \in Numbered(Patches)
  BY <1>3 DEF Under, Phases, InApplying
<1>6. Writing(u, FALSE)'
  <2>1. tree' = [tree EXCEPT ![f] = Applied(tree[f], Patches[next], f, FALSE)]
    BY <1>1
  <2>2. u \in Trees
    BY <1>4, SourcesAreTrees
  <2> QED  BY <2>1, <2>2, <1>1, <1>4, WritingGoesOn
<1>8. tree' \in Sources /\ made' = Count(tree')
  BY <1>1, <1>2, <1>4, <1>5, <1>6, OneMoreLeft
<1>9. Came(g)'
  BY <1>1, <1>3 DEF Under, Came
<1>10. InApplying(g)'
  <2>1. Upto(g, u)'
    BY <1>1, <1>4 DEF Upto
  <2> QED  BY <2>1, <1>1, <1>4, <1>5, <1>6 DEF InApplying
<1>11. Phases(g)'
  BY <1>1, <1>10 DEF Phases, InPatching, InEditing, InBuilding, InUnediting, InUnpatching,
                     InReversing
<1> QED  BY <1>1, <1>2, <1>8, <1>9, <1>11, Restores DEF Under

\* A tree from which a patch that the build has applied is taken.
LEMMA ReversedFromLeft ==
    ASSUME NEW g, Came(g), NEW n \in Numbered(Patches), n \in applied, NEW u \in AlikeTo(g[n])
    PROVE  /\ u \in Left /\ Check(u, Patches[n], TRUE)
           /\ Patched(u, Patches[n], TRUE) \in AlikeTo(g[n - 1])
<1>1. n - 1 \in 0 .. Len(Patches) /\ g[n - 1] \in Sources
  BY PatchesType DEF Came
<1>2. Check(g[n - 1], Patches[n], FALSE) /\ g[n] = Patched(g[n - 1], Patches[n], FALSE)
  BY DEF Came
<1>3. g[n] \in Left
  BY <1>1, <1>2, PatchedLeft
<1>4. u \in Left
  BY <1>3, ReversalAssumption
<1> QED  BY <1>1, <1>2, <1>4, ReversalAssumption DEF PatchReversible

LEMMA WriteBack == ASSUME Inv, WriteFile, at = "reversing" PROVE Inv'
<1> PICK f \in unwritten :
        /\ tree' = [tree EXCEPT ![f] = Applied(tree[f], Patches[next], f, at = "reversing")]
        /\ unwritten' = unwritten \ {f}
  BY DEF WriteFile
<1>1. /\ at' = "reversing" /\ next' = next /\ (at = "reversing") = TRUE
      /\ applied' = applied /\ torn' = torn /\ left' = left /\ made' = made /\ found' = found
  BY DEF WriteFile, flags, history
<1> SUFFICES ASSUME ~torn PROVE Restorable'
  BY <1>1 DEF Inv, Places
<1>2. Restorable
  BY DEF Inv
<1>3. ASSUME NEW u \in Left, next \in Numbered(Patches), Check(u, Patches[next], TRUE),
             Writing(u, TRUE)
      PROVE  /\ Writing(u, TRUE)'
             /\ tree' \in Sources /\ made' = Count(tree')
  <2>1. Writing(u, TRUE)'
    <3>1. tree' = [tree EXCEPT ![f] = Applied(tree[f], Patches[next], f, TRUE)]
      BY <1>1
    <3>2. u \in Trees
      BY SourcesAreTrees
    <3> QED  BY <3>1, <3>2, <1>1, <1>3, WritingGoesOn
  <2>2. made = Count(tree)
    BY <1>2 DEF Restorable
  <2> QED  BY <2>1, <2>2, <1>1, <1>3, OneMoreLeft
<1>4. CASE left
  <2>1. PICK u \in Left : Check(u, Patches[next], TRUE) /\ Writing(u, TRUE)
    BY <1>2, <1>4 DEF Restorable, LeftBehind
  <2>2. next \in Numbered(Patches)
    BY <1>2, <1>4 DEF Restorable, LeftBehind
  <2>3. /\ Writing(u, TRUE)'
        /\ tree' \in Sources /\ made' = Count(tree')
    BY <2>1, <2>2, <1>3
  <2>4. LeftBehind'
    BY <2>1, <2>2, <2>3, <1>1 DEF LeftBehind
  <2> QED  BY <2>3, <2>4, <1>1, <1>4 DEF Restorable
<1>5. CASE ~left
  <2>1. PICK g : Under(g)
    BY <1>2, <1>5 DEF Restorable
  <2>2. PICK u \in AlikeTo(g[next]) : Writing(u, TRUE)
    BY <2>1 DEF Under, Phases, InReversing
  <2>3. next \in Numbered(Patches) /\ next \in applied
    BY <2>1 DEF Under, Phases, InReversing
  <2>4. u \in Left /\ Check(u, Patches[next], TRUE)
    BY <2>1, <2>3, ReversedFromLeft DEF Under
  <2>5. /\ Writing(u, TRUE)'
        /\ tree' \in Sources /\ made' = Count(tree')
    BY <2>2, <2>3, <2>4, <1>3
  <2>6. Came(g)'
    BY <2>1, <1>1 DEF Under, Came
  <2>7. InReversing(g)'
    BY <2>2, <2>3, <2>5, <1>1 DEF InReversing
  <2>8. Phases(g)'
    BY <2>7, <1>1 DEF Phases, InPatching, InApplying, InEditing, InBuilding, InUnediting,
                      InUnpatching
  <2>9. left' = FALSE
    BY <1>1, <1>5 DEF Inv
  <2> QED  BY <2>5, <2>6, <2>8, <2>9, <1>1, Restores DEF Under
<1> QED  BY <1>4, <1>5

LEMMA WriteFileStep == ASSUME Inv, WriteFile PROVE Inv'
  BY WriteForward, WriteBack DEF WriteFile

LEMMA PatchAppliedStep == ASSUME Inv, PatchApplied PROVE Inv'
<1>1. /\ at = "applying" /\ at' = "patching" /\ next' = next + 1 /\ unwritten = {}
      /\ applied' = applied \union {next} /\ tree' = tree /\ handoff' = handoff
      /\ torn' = torn /\ left' = left /\ made' = made /\ found' = found
  BY DEF PatchApplied, Goto, history
<1> SUFFICES ASSUME ~torn PROVE Restorable'
  BY <1>1 DEF Inv, Places
<1>2. /\ left = FALSE /\ tree \in Sources /\ made = Count(tree)
  BY <1>1, NothingLeft
<1>3. PICK g : Under(g)
  BY <1>1, NothingLeft
<1> PICK u \in Sources : Upto(g, u) /\ Check(u, Patches[next], FALSE) /\ Writing(u, FALSE)
  BY <1>1, <1>3 DEF Under, Phases, InApplying
<1>4. /\ next \in 1 .. Len(Patches) /\ applied \subseteq 1 .. (next - 1) /\ handoff = FALSE
      /\ u \in Passed[next - 1] /\ \A n \in next - 1 .. Len(Patches) : g[n] = u
      /\ g \in [0 .. Len(Patches) -> Sources] /\ g[0] = found
  BY <1>1, <1>3, PatchesType DEF Under, Phases, InApplying, Upto, Came
<1>5. tree = Patched(u, Patches[next], FALSE)
  BY <1>1, SourcesAreTrees, WritingEnds
<1>6. tree \in Passed[next]
  BY <1>4, <1>5, PatchesType, ReversalAssumption DEF PatchLetsThrough
<1> PICK h : h = [n \in 0 .. Len(Patches) |-> IF n < next THEN g[n] ELSE tree]
  OBVIOUS
<1>7. /\ h \in [0 .. Len(Patches) -> Sources]
      /\ \A n \in 0 .. Len(Patches) : h[n] = IF n < next THEN g[n] ELSE tree
  BY <1>2, <1>4
<1>8. Came(h)'
  <2>1. h[0] = found
    BY <1>4, <1>7, PatchesType
  <2>2. ASSUME NEW n \in Numbered(Patches)
        PROVE  IF n \in applied'
               THEN /\ Check(h[n - 1], Patches[n], FALSE)
                    /\ h[n] = Patched(h[n - 1], Patches[n], FALSE)
               ELSE h[n] = h[n - 1]
    <3>1. n \in 0 .. Len(Patches) /\ n - 1 \in 0 .. Len(Patches) /\ n \in 1 .. Len(Patches)
      BY PatchesType
    <3>2. CASE n < next
      <4>1. h[n] = g[n] /\ h[n - 1] = g[n - 1]
        BY <3>1, <3>2, <1>4, <1>7
      <4>2. n \in applied' <=> n \in applied
        BY <3>2, <1>1, <1>4
      <4> QED  BY <4>1, <4>2, <1>3 DEF Under, Came
    <3>3. CASE n = next
      <4>1. h[n] = tree /\ h[n - 1] = u
        BY <3>1, <3>3, <1>4, <1>7
      <4> QED  BY <4>1, <3>3, <1>1, <1>5
    <3>4. CASE n > next
      <4>1. h[n] = tree /\ h[n - 1] = tree
        BY <3>1, <3>4, <1>4, <1>7
      <4>2. n \notin 1 .. (next - 1) /\ n # next
        BY <3>1, <3>4, <1>4
      <4>3. n \notin applied'
        BY <4>2, <1>1, <1>4
      <4> QED  BY <4>1, <4>3
    <3>5. n < next \/ n = next \/ n > next
      BY <3>1, <1>4
    <3> QED  BY <3>2, <3>3, <3>4, <3>5, Zenon
  <2> QED  BY <2>1, <2>2, <1>1, <1>7 DEF Came
<1>9. InPatching(h)'
  <2>1. next' \in 1 .. Len(Patches) + 1 /\ next' - 1 = next
    BY <1>1, <1>4, PatchesType
  <2>2. applied' \subseteq 1 .. next
    <3>1. 1 .. (next - 1) \subseteq 1 .. next /\ next \in 1 .. next
      BY <1>4
    <3> QED  BY <3>1, <1>1, <1>4
  <2>3. \A n \in next .. Len(Patches) : h[n] = tree
    BY <1>4, <1>7
  <2> QED  BY <2>1, <2>2, <2>3, <1>1, <1>4, <1>6 DEF InPatching, Upto
<1>10. Phases(h)'
  BY <1>1, <1>9 DEF Phases, InApplying, InEditing, InBuilding, InUnediting, InUnpatching,
                    InReversing
<1> QED  BY <1>1, <1>2, <1>8, <1>10, Restores DEF Under

LEMMA SkipPatchStep == ASSUME Inv, SkipPatch PROVE Inv'
<1>1. /\ at = "patching" /\ at' = "patching" /\ next' = next + 1
      /\ next \in Numbered(Patches) /\ applied' = applied
      /\ ~Check(tree, Patches[next], FALSE) /\ Check(tree, Patches[next], TRUE)
      /\ tree' = tree /\ handoff' = handoff
      /\ torn' = torn /\ left' = left /\ made' = made /\ found' = found
  BY DEF SkipPatch, Patching, Goto, history, flags
<1> SUFFICES ASSUME ~torn PROVE Restorable'
  BY <1>1 DEF Inv, Places
<1>2. /\ left = FALSE /\ tree \in Sources /\ made = Count(tree)
  BY <1>1, NothingLeft
<1>3. PICK g : Under(g)
  BY <1>1, NothingLeft
<1>4. /\ next \in 1 .. Len(Patches) /\ applied \subseteq 1 .. (next - 1) /\ handoff = FALSE
      /\ tree \in Passed[next - 1] /\ \A n \in next - 1 .. Len(Patches) : g[n] = tree
  BY <1>1, <1>3, PatchesType DEF Under, Phases, InPatching, Upto
<1>5. tree \in Passed[next]
  BY <1>1, <1>4, ReversalAssumption DEF PatchLetsThrough
<1>6. Came(g)'
  BY <1>1, <1>3 DEF Under, Came
<1>7. InPatching(g)'
  <2>1. next' \in 1 .. Len(Patches) + 1 /\ next' - 1 = next
    BY <1>1, <1>4, PatchesType
  <2>2. applied \subseteq 1 .. next /\ \A n \in next .. Len(Patches) : g[n] = tree
    BY <1>4
  <2> QED  BY <2>1, <2>2, <1>1, <1>4, <1>5 DEF InPatching, Upto
<1>8. Phases(g)'
  BY <1>1, <1>7 DEF Phases, InApplying, InEditing, InBuilding, InUnediting, InUnpatching,
                    InReversing
<1> QED  BY <1>1, <1>2, <1>6, <1>8, Restores DEF Under

\* The trap has only patches to take back: the tree is that of all of them.
LEMMA Untouched ==
    ASSUME NEW g, Came(g), g[Len(Patches)] = tree, tree \in Sources, made = Count(tree),
           at' = "unpatching", next' = Len(Patches), left' = FALSE, tree' = tree,
           UNCHANGED <<applied, found, made>>
    PROVE  Restorable'
<1>1. Came(g)'
  BY DEF Came
<1>2. InUnpatching(g)'
  BY AlikeSources, PatchesType DEF InUnpatching
<1>3. Phases(g)'
  BY <1>2 DEF Phases, InPatching, InApplying, InEditing, InBuilding, InUnediting, InReversing
<1> QED  BY <1>1, <1>3, Restores DEF Under

LEMMA LeavePatching ==
    ASSUME Inv, ~torn, at = "patching", at' = "unpatching", next' = Len(Patches), tree' = tree,
           left' = FALSE, UNCHANGED <<applied, found, made>>
    PROVE  Restorable'
<1>1. PICK g : Under(g)
  BY NothingLeft
<1>2. g[Len(Patches)] = tree
  <2>1. Len(Patches) \in next - 1 .. Len(Patches)
    BY <1>1, PatchesType DEF Under, Phases, InPatching, Upto
  <2> QED  BY <2>1, <1>1 DEF Under, Phases, InPatching, Upto
<1> QED  BY <1>1, <1>2, NothingLeft, Untouched DEF Under

LEMMA RejectPatchStep == ASSUME Inv, RejectPatch PROVE Inv'
<1>1. /\ at = "patching" /\ at' = "unpatching" /\ next' = Len(Patches)
      /\ tree' = tree /\ torn' = torn /\ left' = left
      /\ UNCHANGED <<applied, found, made>>
  BY DEF RejectPatch, Patching, Exit, Goto, flags, history
<1> SUFFICES ASSUME ~torn PROVE Restorable'
  BY <1>1 DEF Inv, Places
<1>2. left' = FALSE
  BY <1>1, NothingLeft
<1> QED  BY <1>1, <1>2, LeavePatching

LEMMA StartApplierStep == ASSUME Inv, StartApplier PROVE Inv'
<1>1. /\ at = "patching" /\ at' = "editing" /\ next = Len(Patches) + 1 /\ next' = 1
      /\ tree' = tree /\ applied' = applied /\ handoff' = handoff
      /\ torn' = torn /\ left' = left /\ made' = made /\ found' = found
  BY DEF StartApplier, Goto, history, flags
<1> SUFFICES ASSUME ~torn PROVE Restorable'
  BY <1>1 DEF Inv, Places
<1>2. /\ left = FALSE /\ tree \in Sources /\ made = Count(tree)
  BY <1>1, NothingLeft
<1>3. PICK g : Under(g)
  BY <1>1, NothingLeft
<1>4. handoff = FALSE /\ tree \in Passed[Len(Patches)] /\ g[Len(Patches)] = tree
  <2>1. next - 1 = Len(Patches)
    BY <1>1, PatchesType
  <2> QED  BY <2>1, <1>1, <1>3, PatchesType DEF Under, Phases, InPatching, Upto
<1>5. tree \in Work /\ Made(tree) = {}
  BY <1>4, ReversalAssumption
<1> PICK c : c = [l \in 0 .. 0 |-> tree]
  OBVIOUS
<1>6. Chain(c, 0, 0, tree) /\ c[0] = tree
  <2>1. c \in [0 .. 0 -> Work] /\ \A l \in 0 .. 0 : c[l] = tree /\ l = 0
    BY <1>5
  <2>2. (0 + 1) .. 0 = {} /\ 0 \in 0 .. Len(Edits) /\ 0 \in 0 .. 0
    BY EditsType
  <2>3. c[0] = tree
    BY <2>1, <2>2
  <2> QED  BY <2>1, <2>2, <2>3, <1>2, <1>5, AlikeSources DEF Chain
<1>7. Came(g)'
  BY <1>1, <1>3 DEF Under, Came
<1>8. InEditing(g)'
  <2>1. next' \in 1 .. Len(Edits) + 1 /\ next' - 1 = 0
    BY <1>1, EditsType
  <2> QED  BY <2>1, <1>1, <1>4, <1>6 DEF InEditing
<1>9. Phases(g)'
  BY <1>1, <1>8 DEF Phases, InPatching, InApplying, InBuilding, InUnediting, InUnpatching,
                    InReversing
<1> QED  BY <1>1, <1>2, <1>7, <1>9, Restores DEF Under

\* A tree that the applier has made is one that a build may find.
LEMMA ChainSources ==
    ASSUME NEW t, NEW i, NEW j, NEW c, Chain(c, i, j, t)
    PROVE  \A l \in i .. j : c[l] \in Sources
  BY WorkIsSources DEF Chain

\* One more of the first n is counted.
LEMMA OneMore ==
    ASSUME NEW N \in Nat, NEW k \in 1 .. N, NEW f,
           f = [n \in 1 .. N |-> IF n \in 1 .. (k - 1) THEN 1 ELSE 0]
    PROVE  [f EXCEPT ![k] = @ + 1] = [n \in 1 .. N |-> IF n \in 1 .. k THEN 1 ELSE 0]
<1> DEFINE g == [f EXCEPT ![k] = @ + 1]
           h == [n \in 1 .. N |-> IF n \in 1 .. k THEN 1 ELSE 0]
<1>1. f[k] = 0 /\ DOMAIN f = 1 .. N
  OBVIOUS
<1>2. g = [n \in 1 .. N |-> IF n = k THEN 1 ELSE f[n]]
  BY <1>1
<1>3. ASSUME NEW n \in 1 .. N PROVE (IF n = k THEN 1 ELSE f[n]) = (IF n \in 1 .. k THEN 1 ELSE 0)
  <2>1. CASE n = k
    BY <2>1
  <2>2. CASE n # k
    BY <2>2
  <2> QED  BY <2>1, <2>2
<1> QED  BY <1>2, <1>3

LEMMA EditStep == ASSUME Inv, Edit PROVE Inv'
<1>1. /\ at = "editing" /\ at' = "editing" /\ next' = next + 1
      /\ next \in Numbered(Edits) /\ Anchored(tree, Edits[next], FALSE)
      /\ tree' = Done(tree, next) /\ made' = [made EXCEPT ![next] = @ + 1]
      /\ applied' = applied /\ handoff' = handoff
      /\ torn' = torn /\ left' = left /\ found' = found
  BY DEF Edit, Editing, ReplaceOne, Done, Goto, history, flags
<1> SUFFICES ASSUME ~torn PROVE Restorable'
  BY <1>1 DEF Inv, Places
<1>2. PICK g : Under(g)
  BY <1>1, NothingLeft
<1>3. PICK c : Chain(c, 0, next - 1, g[Len(Patches)]) /\ c[next - 1] = tree
  BY <1>1, <1>2 DEF Under, Phases, InEditing
<1>4. /\ handoff = FALSE /\ next \in 1 .. Len(Edits) /\ next - 1 + 1 = next
      /\ next - 1 < Len(Edits)
  BY <1>1, <1>2, EditsType DEF Under, Phases, InEditing
<1>5. PICK d : Chain(d, 0, next, g[Len(Patches)]) /\ d[next] = tree'
  <2>1. Anchored(c[next - 1], Edits[next - 1 + 1], FALSE)
    BY <1>1, <1>3, <1>4
  <2>2. \E d : /\ Chain(d, 0, next - 1 + 1, g[Len(Patches)])
               /\ d[next - 1 + 1] = Done(c[next - 1], next - 1 + 1)
    BY <2>1, <1>3, <1>4, ChainGrows
  <2> QED  BY <2>2, <1>1, <1>3, <1>4
<1>6. tree' \in Sources
  <2>1. next \in 0 .. next
    BY <1>4
  <2> QED  BY <2>1, <1>5, ChainSources
<1>7. Came(g)'
  BY <1>1, <1>2 DEF Under, Came
<1>8. InEditing(g)'
  <2>1. next' \in 1 .. Len(Edits) + 1 /\ next' - 1 = next
    BY <1>1, <1>4, EditsType
  <2> QED  BY <2>1, <1>1, <1>4, <1>5 DEF InEditing
<1>9. Phases(g)'
  BY <1>1, <1>8 DEF Phases, InPatching, InApplying, InBuilding, InUnediting, InUnpatching,
                    InReversing
<1>10. made' = Count(tree')
  <2>1. Made(tree) = 1 .. (next - 1) /\ Made(tree') = 1 .. next
    <3>1. next - 1 \in 0 .. next - 1 /\ next \in 0 .. next
      BY <1>4
    <3>2. Made(c[next - 1]) = (0 + 1) .. (next - 1) /\ Made(d[next]) = (0 + 1) .. next
      BY <3>1, <1>3, <1>5 DEF Chain
    <3> QED  BY <3>2, <1>3, <1>5
  <2>2. made = [n \in 1 .. Len(Edits) |-> IF n \in 1 .. (next - 1) THEN 1 ELSE 0]
    BY <2>1, <1>1, NothingLeft, EditsType DEF Count
  <2>3. made' = [n \in 1 .. Len(Edits) |-> IF n \in 1 .. next THEN 1 ELSE 0]
    <3>1. Len(Edits) \in Nat /\ next \in 1 .. Len(Edits)
      BY <1>4, EditsType
    <3>2. [made EXCEPT ![next] = @ + 1] = [n \in 1 .. Len(Edits) |-> IF n \in 1 .. next THEN 1 ELSE 0]
      BY <2>2, <3>1, OneMore
    <3> QED  BY <3>2, <1>1
  <2> QED  BY <2>1, <2>3, EditsType DEF Count
<1>11. left' = FALSE
  BY <1>1, NothingLeft
<1> QED  BY <1>1, <1>6, <1>7, <1>9, <1>10, <1>11, Restores DEF Under

LEMMA ApplierEndsStep == ASSUME Inv, ApplierEnds PROVE Inv'
<1>1. /\ at = "editing" /\ at' = "building" /\ handoff' = TRUE
      /\ tree' = tree /\ applied' = applied
      /\ torn' = torn /\ left' = left /\ made' = made /\ found' = found
  BY DEF ApplierEnds, FlagAfter, Goto, history
<1> SUFFICES ASSUME ~torn PROVE Restorable'
  BY <1>1 DEF Inv, Places
<1>2. PICK g : Under(g)
  BY <1>1, NothingLeft
<1>3. Came(g)'
  BY <1>1, <1>2 DEF Under, Came
<1>4. InBuilding(g)'
  BY <1>1, <1>2 DEF Under, Phases, InEditing, InBuilding
<1>5. Phases(g)'
  BY <1>1, <1>4 DEF Phases, InPatching, InApplying, InEditing, InUnediting, InUnpatching,
                    InReversing
<1>6. /\ left = FALSE /\ tree \in Sources /\ made = Count(tree)
  BY <1>1, NothingLeft
<1> QED  BY <1>1, <1>3, <1>5, <1>6, Restores DEF Under

\* The trap, from the build: the applier undoes what it has made.
LEMMA LeaveBuilding ==
    ASSUME Inv, ~torn, at = "building", Exit(handoff), tree' = tree, left' = FALSE,
           UNCHANGED <<applied, found, made>>
    PROVE  Restorable'
<1>2. PICK g : Under(g)
  BY NothingLeft
<1>3. at' = "unediting" /\ next' = 1
  BY <1>2 DEF Under, Phases, InBuilding, Exit, Goto
<1>4. Came(g)'
  BY <1>2 DEF Under, Came
<1>5. InUnediting(g)'
  <2>1. next' \in 1 .. Len(Edits) + 1 /\ next' - 1 = 0
    BY <1>3, EditsType
  <2> QED  BY <2>1, <1>2 DEF Under, Phases, InBuilding, InUnediting
<1>6. Phases(g)'
  BY <1>3, <1>5 DEF Phases, InPatching, InApplying, InEditing, InBuilding, InUnpatching,
                    InReversing
<1>7. tree \in Sources /\ made = Count(tree)
  BY NothingLeft
<1> QED  BY <1>3, <1>4, <1>6, <1>7, Restores DEF Under

LEMMA BuildEndsStep == ASSUME Inv, BuildEnds PROVE Inv'
<1>1. /\ at = "building" /\ Exit(handoff) /\ at' \in {"unediting", "unpatching"}
      /\ tree' = tree /\ torn' = torn /\ left' = left
      /\ UNCHANGED <<applied, found, made>>
  BY DEF BuildEnds, Exit, Goto, flags, history
<1> SUFFICES ASSUME ~torn PROVE Restorable'
  BY <1>1 DEF Inv, Places
<1>2. left' = FALSE
  BY <1>1, NothingLeft
<1> QED  BY <1>1, <1>2, LeaveBuilding

LEMMA UneditStep == ASSUME Inv, Unedit PROVE Inv'
<1>1. /\ at = "unediting" /\ at' = "unediting" /\ next' = next + 1
      /\ next \in Numbered(Edits) /\ Anchored(tree, Edits[next], TRUE)
      /\ tree' = Undone(tree, next) /\ made' = [made EXCEPT ![next] = @ - 1]
      /\ applied' = applied /\ torn' = torn /\ left' = left /\ found' = found
  BY DEF Unedit, EditUndone, ReplaceOne, Undone, Goto, history, flags
<1> SUFFICES ASSUME ~torn PROVE Restorable'
  BY <1>1 DEF Inv, Places
<1>2. PICK g : Under(g)
  BY <1>1, NothingLeft
<1>3. PICK j, c : Chain(c, next - 1, j, g[Len(Patches)]) /\ c[j] = tree
  BY <1>1, <1>2 DEF Under, Phases, InUnediting
<1>4. /\ next \in 1 .. Len(Edits) /\ next - 1 + 1 = next /\ next - 1 < Len(Edits)
      /\ Len(Edits) \in Nat
  BY <1>1, EditsType
<1>5. next - 1 < j
  <2>1. Anchored(c[j], Edits[next - 1 + 1], TRUE)
    BY <1>1, <1>3, <1>4
  <2> QED  BY <2>1, <1>3, <1>4, ChainHolds
<1>6. g[Len(Patches)] \in Trees
  BY <1>2, PatchesType, SourcesAreTrees DEF Under, Came
<1>7. PICK d : Chain(d, next, j, g[Len(Patches)]) /\ d[j] = tree'
  <2>1. \E d : /\ Chain(d, next - 1 + 1, j, g[Len(Patches)])
               /\ d[j] = Undone(c[j], next - 1 + 1)
    BY <1>3, <1>5, <1>6, ChainShrinks
  <2> QED  BY <2>1, <1>1, <1>3, <1>4
<1>8. tree' \in Sources
  <2>1. j \in next .. j
    BY <1>4, <1>7 DEF Chain
  <2> QED  BY <2>1, <1>7, ChainSources
<1>9. Came(g)'
  BY <1>1, <1>2 DEF Under, Came
<1>10. InUnediting(g)'
  <2>1. next' \in 1 .. Len(Edits) + 1 /\ next' - 1 = next
    BY <1>1, <1>4
  <2> QED  BY <2>1, <1>7 DEF InUnediting
<1>11. Phases(g)'
  BY <1>1, <1>10 DEF Phases, InPatching, InApplying, InBuilding, InEditing, InUnpatching,
                     InReversing
<1>12. made' = Count(tree')
  <2>1. /\ Made(tree) = next .. j /\ Made(tree') = (next + 1) .. j
        /\ j \in next .. Len(Edits)
    <3>1. j \in next - 1 .. j /\ j \in next .. j /\ j \in next .. Len(Edits)
      BY <1>4, <1>7 DEF Chain
    <3>2. Made(c[j]) = (next - 1 + 1) .. j /\ Made(d[j]) = (next + 1) .. j
      BY <3>1, <1>3, <1>7 DEF Chain
    <3> QED  BY <3>1, <3>2, <1>3, <1>4, <1>7
  <2>2. made = [n \in 1 .. Len(Edits) |-> IF n \in next .. j THEN 1 ELSE 0]
    BY <2>1, <1>1, NothingLeft, EditsType DEF Count
  <2>3. made' = [n \in 1 .. Len(Edits) |-> IF n \in (next + 1) .. j THEN 1 ELSE 0]
    BY <2>1, <2>2, <1>1, <1>4
  <2> QED  BY <2>1, <2>3, EditsType DEF Count
<1>13. left' = FALSE
  BY <1>1, NothingLeft
<1> QED  BY <1>1, <1>8, <1>9, <1>11, <1>12, <1>13, Restores DEF Under

\* The applier's reversal stops where nothing is left to undo, and so the
\* patches come out of the tree that they went into.
LEMMA UneditEndsStep == ASSUME Inv, UneditEnds PROVE Inv'
<1>1. /\ at = "unediting" /\ at' = "unpatching" /\ next' = Len(Patches)
      /\ next <= Len(Edits) => ~Anchored(tree, Edits[next], TRUE)
      /\ tree' = tree /\ applied' = applied
      /\ torn' = torn /\ left' = left /\ made' = made /\ found' = found
  BY DEF UneditEnds, EditUndone, Goto, history, flags
<1> SUFFICES ASSUME ~torn PROVE Restorable'
  BY <1>1 DEF Inv, Places
<1>2. PICK g : Under(g)
  BY <1>1, NothingLeft
<1>3. PICK j, c : Chain(c, next - 1, j, g[Len(Patches)]) /\ c[j] = tree
  BY <1>1, <1>2 DEF Under, Phases, InUnediting
<1>4. next \in 1 .. Len(Edits) + 1 /\ next - 1 + 1 = next /\ Len(Edits) \in Nat
  BY <1>1, <1>2, EditsType DEF Under, Phases, InUnediting
<1>5. ~(next - 1 < j)
  <2>1. next - 1 < j => next - 1 < Len(Edits) /\ Anchored(c[j], Edits[next - 1 + 1], TRUE)
    BY <1>3, ChainHolds
  <2>2. next - 1 < Len(Edits) => ~Anchored(c[j], Edits[next - 1 + 1], TRUE)
    <3> SUFFICES ASSUME next - 1 < Len(Edits) PROVE ~Anchored(tree, Edits[next], TRUE)
      BY <1>3, <1>4
    <3>1. next <= Len(Edits)
      BY <1>4
    <3> QED  BY <3>1, <1>1
  <2> QED  BY <2>1, <2>2
<1>6. j = next - 1 /\ tree \in AlikeTo(g[Len(Patches)])
  <2>1. j = next - 1
    BY <1>3, <1>4, <1>5 DEF Chain
  <2> QED  BY <2>1, <1>3 DEF Chain
<1>7. Came(g)'
  BY <1>1, <1>2 DEF Under, Came
<1>8. InUnpatching(g)'
  BY <1>1, <1>6, PatchesType DEF InUnpatching
<1>9. Phases(g)'
  BY <1>1, <1>8 DEF Phases, InPatching, InApplying, InBuilding, InEditing, InUnediting,
                    InReversing
<1>10. /\ left = FALSE /\ tree \in Sources /\ made = Count(tree)
  BY <1>1, NothingLeft
<1> QED  BY <1>1, <1>7, <1>9, <1>10, Restores DEF Under

LEMMA UnpatchStep == ASSUME Inv, Unpatch PROVE Inv'
<1>1. /\ at = "unpatching" /\ at' = "reversing" /\ next' = next
      /\ next \in Numbered(Patches) /\ next \in applied /\ Check(tree, Patches[next], TRUE)
      /\ unwritten' = Touched(Patches[next]) /\ tree' = tree /\ applied' = applied
      /\ torn' = torn /\ left' = left /\ made' = made /\ found' = found
  BY DEF Unpatch, Reversible, Goto, history, flags
<1> SUFFICES ASSUME ~torn PROVE Restorable'
  BY <1>1 DEF Inv, Places
<1>2. Restorable
  BY DEF Inv
<1>3. Writing(tree, TRUE)'
  BY <1>1, <1>2, SourcesAreTrees, WritingBegins DEF Restorable
<1>4. CASE left
  <2>1. LeftBehind'
    BY <1>1, <1>2, <1>3, <1>4 DEF Restorable, LeftBehind
  <2> QED  BY <2>1, <1>1, <1>2, <1>4 DEF Restorable
<1>5. CASE ~left
  <2>1. PICK g : Under(g)
    BY <1>1, <1>2, <1>5 DEF Restorable
  <2>2. tree \in AlikeTo(g[next])
    BY <2>1, <1>1 DEF Under, Phases, InUnpatching
  <2>3. Came(g)'
    BY <2>1, <1>1 DEF Under, Came
  <2>4. InReversing(g)'
    BY <2>2, <1>1, <1>3 DEF InReversing
  <2>5. Phases(g)'
    BY <2>4, <1>1 DEF Phases, InPatching, InApplying, InEditing, InBuilding, InUnediting,
                      InUnpatching
  <2>6. left' = FALSE /\ tree \in Sources /\ made = Count(tree)
    BY <1>1, <1>2, <1>5 DEF Inv, Restorable
  <2> QED  BY <2>3, <2>5, <2>6, <1>1, Restores DEF Under
<1> QED  BY <1>4, <1>5

\* The tree that a patch, or one that was not there, is taken from comes back.
LEMMA OnePatchLess ==
    ASSUME NEW g, Came(g), next \in Numbered(Patches), tree \in AlikeTo(g[next - 1]),
           at' = "unpatching", next' = next - 1, tree' = tree, left' = FALSE,
           made = Count(tree), UNCHANGED <<applied, found, made>>
    PROVE  Restorable'
<1>1. next - 1 \in 0 .. Len(Patches) /\ g[next - 1] \in Sources
  BY PatchesType DEF Came
<1>2. tree \in Sources
  BY <1>1, AlikeSources
<1>3. Came(g)'
  BY DEF Came
<1>4. InUnpatching(g)'
  BY <1>1 DEF InUnpatching
<1>5. Phases(g)'
  BY <1>4 DEF Phases, InPatching, InApplying, InEditing, InBuilding, InUnediting, InReversing
<1> QED  BY <1>2, <1>3, <1>5, Restores DEF Under

LEMMA PatchReversedStep == ASSUME Inv, PatchReversed PROVE Inv'
<1>1. /\ at = "reversing" /\ at' = "unpatching" /\ next' = next - 1 /\ unwritten = {}
      /\ tree' = tree /\ applied' = applied
      /\ torn' = torn /\ left' = left /\ made' = made /\ found' = found
  BY DEF PatchReversed, Goto, history, flags
<1> SUFFICES ASSUME ~torn PROVE Restorable'
  BY <1>1 DEF Inv, Places
<1>2. Restorable
  BY DEF Inv
<1>3. CASE left
  <2>1. PICK u \in Left : Check(u, Patches[next], TRUE) /\ Writing(u, TRUE)
    BY <1>1, <1>2, <1>3 DEF Restorable, LeftBehind
  <2>2. next \in Numbered(Patches)
    BY <1>1, <1>2, <1>3 DEF Restorable, LeftBehind
  <2>3. tree \in Left
    <3>1. tree = Halfway(u, next, Touched(Patches[next]) \ {}, TRUE)
      BY <2>1, <1>1 DEF Writing
    <3>2. Touched(Patches[next]) \ {} \subseteq Touched(Patches[next])
      OBVIOUS
    <3> QED  BY <3>1, <3>2, <2>1, <2>2, HalfwayLeft
  <2>4. LeftBehind'
    BY <2>3, <1>1 DEF LeftBehind
  <2> QED  BY <2>4, <1>1, <1>2, <1>3 DEF Restorable
<1>4. CASE ~left
  <2>1. PICK g : Under(g)
    BY <1>1, <1>2, <1>4 DEF Restorable
  <2>2. PICK u \in AlikeTo(g[next]) : Writing(u, TRUE)
    BY <2>1, <1>1 DEF Under, Phases, InReversing
  <2>3. next \in Numbered(Patches) /\ next \in applied
    BY <2>1, <1>1 DEF Under, Phases, InReversing
  <2>4. u \in Left /\ Patched(u, Patches[next], TRUE) \in AlikeTo(g[next - 1])
    BY <2>1, <2>3, ReversedFromLeft DEF Under
  <2>5. tree = Patched(u, Patches[next], TRUE)
    BY <2>2, <2>4, <1>1, SourcesAreTrees, WritingEnds
  <2>6. left' = FALSE /\ made = Count(tree)
    BY <1>1, <1>2, <1>4 DEF Inv, Restorable
  <2> QED  BY <2>1, <2>3, <2>4, <2>5, <2>6, <1>1, OnePatchLess DEF Under
<1> QED  BY <1>3, <1>4

LEMMA LeavePatchStep == ASSUME Inv, LeavePatch PROVE Inv'
<1>1. /\ at = "unpatching" /\ at' = "unpatching" /\ next' = next - 1
      /\ next \in Numbered(Patches)
      /\ ~(next \in applied /\ Check(tree, Patches[next], TRUE))
      /\ tree' = tree /\ applied' = applied
      /\ torn' = torn /\ left' = left /\ made' = made /\ found' = found
  BY DEF LeavePatch, Reversible, Goto, history, flags
<1> SUFFICES ASSUME ~torn PROVE Restorable'
  BY <1>1 DEF Inv, Places
<1>2. Restorable
  BY DEF Inv
<1>3. CASE left
  <2>1. LeftBehind'
    BY <1>1, <1>2, <1>3 DEF Restorable, LeftBehind
  <2> QED  BY <2>1, <1>1, <1>2, <1>3 DEF Restorable
<1>4. CASE ~left
  <2>1. PICK g : Under(g)
    BY <1>1, <1>2, <1>4 DEF Restorable
  <2>2. tree \in AlikeTo(g[next])
    BY <2>1, <1>1 DEF Under, Phases, InUnpatching
  <2>3. next \notin applied
    BY <2>1, <2>2, <1>1, ReversedFromLeft DEF Under
  <2>4. tree \in AlikeTo(g[next - 1])
    BY <2>1, <2>2, <2>3, <1>1 DEF Under, Came
  <2>5. left' = FALSE /\ made = Count(tree)
    BY <1>1, <1>2, <1>4 DEF Inv, Restorable
  <2> QED  BY <2>1, <2>4, <2>5, <1>1, OnePatchLess DEF Under
<1> QED  BY <1>3, <1>4

LEMMA ExitedStep == ASSUME Inv, Exited PROVE Inv'
<1>1. /\ at = "unpatching" /\ at' = "idle" /\ next = 0
      /\ tree' = tree /\ torn' = torn /\ left' = left /\ made' = made /\ found' = found
  BY DEF Exited, Goto
<1> SUFFICES ASSUME ~torn PROVE Restorable'
  BY <1>1 DEF Inv, Places
<1>2. Restorable
  BY DEF Inv
<1>3. CASE left
  <2>1. LeftBehind'
    BY <1>1, <1>2, <1>3 DEF Restorable, LeftBehind
  <2> QED  BY <2>1, <1>1, <1>2, <1>3 DEF Restorable
<1>4. CASE ~left
  <2>1. PICK g : Under(g)
    BY <1>1, <1>2, <1>4 DEF Restorable
  <2>2. found \in Sources /\ tree \in AlikeTo(found)
    BY <2>1, <1>1, PatchesType DEF Under, Phases, Came, InUnpatching
  <2> QED  BY <2>2, <1>1, <1>2, <1>4 DEF Restorable
<1> QED  BY <1>3, <1>4

\* Ctrl-C where a git apply is about to run, runs or has run.
LEMMA InterruptApplying ==
    ASSUME Inv, ~torn, at = "applying", Exit(handoff), tree' = tree, left' = InApply,
           UNCHANGED <<applied, found, made>>
    PROVE  Restorable'
<1>1. tree \in Sources /\ made = Count(tree)
  BY NothingLeft
<1>2. PICK g : Under(g)
  BY NothingLeft
<1>3. PICK u \in Sources : Upto(g, u) /\ Check(u, Patches[next], FALSE) /\ Writing(u, FALSE)
  BY <1>2 DEF Under, Phases, InApplying
<1>4. next \in Numbered(Patches)
  BY <1>2 DEF Under, Phases, InApplying
<1>5. at' = "unpatching" /\ next' = Len(Patches)
  BY <1>3 DEF Upto, Exit, Goto
<1>6. CASE InApply
  <2>1. tree \in Left
    <3>1. tree = Halfway(u, next, Touched(Patches[next]) \ unwritten, FALSE)
      BY <1>3 DEF Writing
    <3>2. Touched(Patches[next]) \ unwritten \subseteq Touched(Patches[next])
      OBVIOUS
    <3> QED  BY <3>1, <3>2, <1>3, <1>4, HalfwayLeft
  <2>2. LeftBehind'
    BY <2>1, <1>5 DEF LeftBehind
  <2> QED  BY <2>2, <1>1, <1>5, <1>6 DEF Restorable
<1>7. CASE ~InApply
  <2>1. unwritten = Touched(Patches[next])
    BY <1>7 DEF InApply
  <2>2. tree = u
    BY <2>1, <1>3, SourcesAreTrees, WritingNone
  <2>3. g[Len(Patches)] = tree
    <3>1. Len(Patches) \in next - 1 .. Len(Patches)
      BY <1>4, PatchesType
    <3> QED  BY <3>1, <2>2, <1>3 DEF Upto
  <2>4. left' = FALSE
    BY <1>7 DEF InApply
  <2> QED  BY <2>3, <2>4, <1>1, <1>2, <1>5, Untouched DEF Under
<1> QED  BY <1>6, <1>7

LEMMA InterruptStep == ASSUME Inv, Interrupt PROVE Inv'
<1>1. /\ at \in {"patching", "applying", "editing", "building"}
      /\ Exit(handoff) /\ torn' = (torn \/ (at = "editing" /\ next > 1)) /\ left' = InApply
      /\ tree' = tree /\ UNCHANGED <<applied, found, made>>
  BY DEF Interrupt, flags
<1>2. /\ at' \in {"unediting", "unpatching"} /\ torn' \in BOOLEAN /\ left' \in BOOLEAN
  BY <1>1 DEF Exit, Goto, Inv, InApply
<1> SUFFICES ASSUME ~torn' PROVE Restorable'
  BY <1>2 DEF Inv, Places
<1>3. ~torn /\ ~(at = "editing" /\ next > 1)
  BY <1>1
<1>4. at # "applying" => left' = FALSE
  BY <1>1 DEF InApply
<1>5. CASE at = "building"
  BY <1>1, <1>3, <1>4, <1>5, LeaveBuilding
<1>6. CASE at = "applying"
  BY <1>1, <1>3, <1>6, InterruptApplying
<1>7. CASE at = "patching"
  <2>1. PICK g : Under(g)
    BY <1>3, <1>7, NothingLeft
  <2>2. handoff = FALSE
    BY <2>1, <1>7 DEF Under, Phases, InPatching, Upto
  <2>3. at' = "unpatching" /\ next' = Len(Patches)
    BY <2>2, <1>1 DEF Exit, Goto
  <2> QED  BY <2>3, <1>1, <1>3, <1>4, <1>7, LeavePatching
<1>8. CASE at = "editing"
  <2>1. PICK g : Under(g)
    BY <1>3, <1>8, NothingLeft
  <2>2. handoff = FALSE /\ next = 1
    <3>1. handoff = FALSE /\ next \in 1 .. Len(Edits) + 1 /\ ~(next > 1)
      BY <2>1, <1>3, <1>8 DEF Under, Phases, InEditing
    <3> QED  BY <3>1, EditsType
  <2>3. at' = "unpatching" /\ next' = Len(Patches)
    BY <2>2, <1>1 DEF Exit, Goto
  <2>4. PICK c : Chain(c, 0, next - 1, g[Len(Patches)]) /\ c[next - 1] = tree
    BY <2>1, <1>8 DEF Under, Phases, InEditing
  <2>5. tree \in AlikeTo(g[Len(Patches)])
    <3>1. next - 1 = 0
      BY <2>2
    <3> QED  BY <3>1, <2>4 DEF Chain
  <2>6. Came(g)'
    BY <2>1, <1>1 DEF Under, Came
  <2>7. InUnpatching(g)'
    BY <2>3, <2>5, <1>1, PatchesType DEF InUnpatching
  <2>8. Phases(g)'
    BY <2>3, <2>7 DEF Phases, InPatching, InApplying, InBuilding, InEditing, InUnediting,
                      InReversing
  <2>9. tree \in Sources /\ made = Count(tree)
    BY <1>3, <1>8, NothingLeft
  <2> QED  BY <2>3, <2>6, <2>8, <2>9, <1>1, <1>4, <1>8, Restores DEF Under
<1> QED  BY <1>1, <1>5, <1>6, <1>7, <1>8

LEMMA KillStep == ASSUME Inv, Kill PROVE Inv'
<1>1. /\ at' = "idle" /\ tree' = tree /\ found' = tree /\ left' = FALSE
      /\ torn' = torn /\ made' = made
  BY DEF Kill, Goto
<1> SUFFICES ASSUME ~torn PROVE Restorable'
  BY <1>1 DEF Inv, Places
<1>2. tree \in Sources /\ tree \in AlikeTo(tree) /\ made = Count(tree)
  BY AlikeSources DEF Inv, Restorable
<1> QED  BY <1>1, <1>2 DEF Restorable

LEMMA CheckOutStep == ASSUME Inv, CheckOut PROVE Inv'
<1>1. /\ at' = "idle" /\ tree' \in Checkouts /\ torn' = FALSE /\ left' = FALSE
      /\ made' = NoneMade /\ ended' = FALSE
  BY DEF CheckOut
<1>2. tree' \in Sources /\ Made(tree') = {}
  BY <1>1, ReversalAssumption DEF CheckoutClean
<1>3. made' = Count(tree')
  BY <1>1, <1>2 DEF NoneMade, Count
<1> QED  BY <1>1, <1>2, <1>3 DEF Inv, Restorable, Places

LEMMA StutterStep == ASSUME Inv, UNCHANGED vars PROVE Inv'
<1>1. UNCHANGED <<tree, at, next, applied, handoff, unwritten, torn, left, found, made, ended>>
  BY DEF vars
<1>2. ASSUME NEW u, NEW b PROVE Writing(u, b)' = Writing(u, b)
  BY <1>1 DEF Writing
<1>3. ASSUME NEW g PROVE Came(g)' = Came(g)
  BY <1>1 DEF Came
<1>4. ASSUME NEW g, Phases(g) PROVE Phases(g)'
  <2>1. InPatching(g)' /\ InEditing(g)' /\ InBuilding(g)' /\ InUnediting(g)' /\ InUnpatching(g)'
    BY <1>1, <1>4 DEF Phases, InPatching, Upto, InEditing, InBuilding, InUnediting, InUnpatching
  <2>2. InApplying(g)'
    BY <1>1, <1>2, <1>4 DEF Phases, InApplying, Upto
  <2>3. InReversing(g)'
    BY <1>1, <1>2, <1>4 DEF Phases, InReversing
  <2> QED  BY <2>1, <2>2, <2>3 DEF Phases
<1>5. ASSUME LeftBehind PROVE LeftBehind'
  BY <1>1, <1>2, <1>5 DEF LeftBehind
<1> SUFFICES ASSUME ~torn' PROVE Restorable'
  BY <1>1 DEF Inv
<1>6. Restorable
  BY <1>1 DEF Inv
<1>7. at # "idle" /\ ~left => (\E g : Under(g))'
  BY <1>3, <1>4, <1>6 DEF Restorable, Under
<1> QED  BY <1>1, <1>5, <1>6, <1>7 DEF Restorable

LEMMA NextInv == Inv /\ [Next]_vars => Inv'
  BY StartStep, StartPatchStep, WriteFileStep, PatchAppliedStep, SkipPatchStep, RejectPatchStep,
     StartApplierStep, EditStep, ApplierEndsStep, BuildEndsStep, UneditStep, UneditEndsStep,
     UnpatchStep, PatchReversedStep, LeavePatchStep, ExitedStep, InterruptStep, KillStep, CheckOutStep, StutterStep DEF Next

THEOREM SpecInv == Spec => []Inv
  BY InitInv, NextInv, PTL DEF Spec

-----------------------------------------------------------------------------
(* What it implies *)

\* A build that comes to its end puts the sources back, whatever failed in it
\* or was interrupted, and after any kills before it, within git as well: the
\* texts as it found them, and a clean checkout to the byte.  Left out are an
\* interrupt of the applier and, for the build that meets it, of a git apply
\* that has begun to write.  The trap of build.sh and both directions of
\* apply-display-handoff.py.
THEOREM BuildsRestoreSources == Spec => []BuildRestoresSources
<1>1. Inv => BuildRestoresSources
  <2> SUFFICES ASSUME Inv, at = "idle", ended, ~torn, ~left
               PROVE  SameTexts(tree, found) /\ (found \in Checkouts => tree = found)
    BY DEF BuildRestoresSources
  <2>1. found \in Trees /\ tree \in AlikeTo(found)
    BY SourcesAreTrees DEF Inv, Restorable
  <2> QED  BY <2>1, AlikeHasSameTexts, AlikeToCheckout
<1> QED  BY <1>1, SpecInv, PTL

\* In what a build compiles each replacement is made at most once, however many
\* builds were killed before: the applier, which would make one again, never
\* gets a tree in which one is made.
THEOREM BuildsDoubleNothing == Spec => []NothingIsDoubled
<1>1. Inv => NothingIsDoubled
  BY DEF Inv, Restorable, Count, NothingIsDoubled
<1> QED  BY <1>1, SpecInv, PTL

=============================================================================
