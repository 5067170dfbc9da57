------------------------- MODULE PromptSessionProofs -------------------------
(* Proofs about PromptSession for any length of the session.                 *)
EXTENDS PromptSession, SequenceTheorems, WellFoundedInduction, TLAPS

Pieces == [of : Lines \union Prompts \union {"blank"}, part : {1, 2}]

\* No part of a prompt; and a prompt at the end, with its blank, and no other before it.
Plain(pieces) == \A i \in 1 .. Len(pieces) : pieces[i].of \notin Prompts

EndsAsking(pieces, prompt) ==
  LET n == Len(pieces)
  IN /\ n >= 3 /\ pieces[n] = Blank
     /\ pieces[n - 2] = [of |-> prompt, part |-> 1]
     /\ pieces[n - 1] = [of |-> prompt, part |-> 2]
     /\ \A i \in 1 .. n - 3 : pieces[i].of \notin Prompts

\* With one detector for both outputs the prompt is whole in the pipe, or its first half
\* was heard, or it was read and hidden by other output.
FirstHalves(pieces, prompt) ==
  \A i \in 1 .. Len(pieces) :
    pieces[i].of \in Prompts => pieces[i] = [of |-> prompt, part |-> 1]
Half(prompt) ==
  /\ pipe["err"] = <<[of |-> prompt, part |-> 2], Blank>>
  /\ FirstHalves(heard["out"], prompt)
Hidden == pipe["err"] \in {<<>>, <<Blank>>} /\ PromptIn(heard["out"]) = "none"

AllPlain == \A s \in Sources : Plain(heard[s]) /\ Plain(pipe[s])

\* While the child waits and its prompt was not found, that prompt alone is in the output;
\* and otherwise none is.
Unanswered == connector = "asking" /\ due = "none" /\ stdin = <<>>

OutputAgrees ==
  /\ connector # "gone" /\ ~Unanswered => AllPlain
  /\ Unanswered =>
       /\ asked \in Prompts /\ Plain(pipe["out"])
       /\ platform # "macos" =>
            Plain(heard["out"]) /\ EndsAsking(heard["err"] \o pipe["err"], asked)
       /\ platform = "macos" => Plain(heard["err"])
       /\ platform = "macos" =>
            \/ Plain(heard["out"]) /\ EndsAsking(pipe["err"], asked)
            \/ Half(asked)
            \/ Hidden

TaskAgrees ==
  /\ at \in {"first", "loop"} => due = "none"
  /\ at \in {"code", "answer"} => due # "none"
  /\ at = "first" => connector \in {"starting", "gone"} /\ stdin = <<>>
  /\ at = "over" => connector = "gone" /\ (helpers => platform # "windows")
  /\ forced => connector = "gone" /\ (helpers => platform = "macos")

SessionInv ==
  /\ PromptTypeOK /\ AnswersFit /\ ReportedOnce
  /\ reported \in Seq(Events) /\ stdin \in Seq(Prompts)
  /\ heard \in [Sources -> Seq(Pieces)] /\ pipe \in [Sources -> Seq(Pieces)]
  /\ TaskAgrees /\ OutputAgrees

-----------------------------------------------------------------------------
(* Sequences of pieces.                                                      *)

LEMMA GreatestOfSet ==
  ASSUME NEW n \in Nat, NEW I, I \subseteq 1 .. n, I # {}
  PROVE  Max(I) \in I /\ \A i \in I : i <= Max(I)
<1> DEFINE B == {n - i : i \in I}
<1>1. B \subseteq Nat /\ B # {}
  <2>1. \A i \in I : i \in 1 .. n /\ n - i \in Nat
    OBVIOUS
  <2> QED BY <2>1
<1>2. PICK b \in B : \A c \in B : <<c, b>> \notin OpToRel(<, Nat)
  <2> HIDE DEF B
  <2> QED BY <1>1, NatLessThanWellFounded, WFMin
<1>3. \A c \in B : ~(c < b)
  BY <1>1, <1>2 DEF OpToRel
<1>4. PICK w \in I : b = n - w
  OBVIOUS
<1>5. ASSUME NEW v \in I PROVE w >= v
  <2>1. ~(n - v < n - w)
    BY <1>3, <1>4
  <2> HIDE DEF B
  <2> QED BY <2>1
<1>6. w \in I /\ \A v \in I : w >= v
  BY <1>5
<1>7. Max(I) \in I /\ \A i \in I : Max(I) >= i
  BY <1>6 DEF Max
<1> QED BY <1>7

LEMMA LastNewline ==
  ASSUME NEW pieces \in Seq(Pieces)
  PROVE  LET k == SelectLastInSeq(pieces, EndsLine)
         IN /\ k \in 0 .. Len(pieces)
            /\ k > 0 => EndsLine(pieces[k])
            /\ \A i \in 1 .. Len(pieces) : EndsLine(pieces[i]) => i <= k
<1> DEFINE I == {i \in 1 .. Len(pieces) : EndsLine(pieces[i])}
<1>1. SelectLastInSeq(pieces, EndsLine) = IF I # {} THEN Max(I) ELSE 0
  BY DEF SelectLastInSeq
<1>2. Len(pieces) \in Nat
  BY LenProperties
<1>3. CASE I = {}
  BY <1>1, <1>2, <1>3
<1>4. CASE I # {}
  <2>1. Max(I) \in I /\ \A i \in I : i <= Max(I)
    BY <1>2, <1>4, GreatestOfSet
  <2> QED BY <1>1, <1>2, <1>4, <2>1
<1> QED BY <1>3, <1>4

LEMMA LastNonBlank ==
  ASSUME NEW pieces \in Seq(Pieces)
  PROVE  LET k == SelectLastInSeq(pieces, LAMBDA p : p # Blank)
         IN /\ k \in 0 .. Len(pieces)
            /\ k > 0 => pieces[k] # Blank
            /\ \A i \in 1 .. Len(pieces) : pieces[i] # Blank => i <= k
<1> DEFINE k == SelectLastInSeq(pieces, LAMBDA p : p # Blank)
           I == {i \in 1 .. Len(pieces) : pieces[i] # Blank}
<1>1. k = IF I # {} THEN Max(I) ELSE 0
  BY DEF SelectLastInSeq
<1>2. Len(pieces) \in Nat
  BY LenProperties
<1> SUFFICES /\ k \in 0 .. Len(pieces) /\ (k > 0 => pieces[k] # Blank)
             /\ \A i \in 1 .. Len(pieces) : pieces[i] # Blank => i <= k
  OBVIOUS
<1> HIDE DEF k
<1>3. CASE I = {}
  BY <1>1, <1>2, <1>3
<1>4. CASE I # {}
  <2>1. Max(I) \in I /\ \A i \in I : i <= Max(I)
    BY <1>2, <1>4, GreatestOfSet
  <2> QED BY <1>1, <1>2, <1>4, <2>1
<1> QED BY <1>3, <1>4

\* PromptIn without its search: the two halves, and blanks after them.
EndsWith(pieces, prompt) ==
  \E k \in 2 .. Len(pieces) :
    /\ pieces[k] = [of |-> prompt, part |-> 2] /\ pieces[k - 1] = [of |-> prompt, part |-> 1]
    /\ \A i \in k + 1 .. Len(pieces) : pieces[i] = Blank

LEMMA PromptFound ==
  ASSUME NEW pieces \in Seq(Pieces)
  PROVE  /\ PromptIn(pieces) # "none" =>
              PromptIn(pieces) \in Prompts /\ EndsWith(pieces, PromptIn(pieces))
         /\ \A prompt \in Prompts : EndsWith(pieces, prompt) => PromptIn(pieces) = prompt
<1> DEFINE n == SelectLastInSeq(pieces, LAMBDA p : p # Blank)
<1>1. /\ n \in 0 .. Len(pieces)
      /\ n > 0 => pieces[n] # Blank
      /\ \A i \in 1 .. Len(pieces) : pieces[i] # Blank => i <= n
  BY LastNonBlank
<1>2. PromptIn(pieces) = IF n > 1 /\ pieces[n].of \in Prompts
                            /\ SubSeq(pieces, n - 1, n) = Halves(pieces[n].of)
                         THEN pieces[n].of ELSE "none"
  BY DEF PromptIn
<1>3. Len(pieces) \in Nat /\ \A i \in 1 .. Len(pieces) : pieces[i] \in Pieces
  BY LenProperties, ElementOfSeq
<1> HIDE DEF n
<1>4. ASSUME n > 1, NEW prompt
      PROVE  SubSeq(pieces, n - 1, n) = Halves(prompt)
               <=> /\ pieces[n - 1] = [of |-> prompt, part |-> 1]
                   /\ pieces[n] = [of |-> prompt, part |-> 2]
  <2> DEFINE s == SubSeq(pieces, n - 1, n)
             t == Halves(prompt)
  <2>1. n - 1 \in Int /\ n \in Int /\ \A i \in n - 1 .. n : pieces[i] \in Pieces
    BY <1>1, <1>3, <1>4
  <2>2. s \in Seq(Pieces) /\ Len(s) = 2 /\ s[1] = pieces[n - 1] /\ s[2] = pieces[n]
    <3>1. /\ s \in Seq(Pieces)
          /\ Len(s) = IF n - 1 <= n THEN n - (n - 1) + 1 ELSE 0
          /\ \A i \in 1 .. n - (n - 1) + 1 : s[i] = pieces[(n - 1) + i - 1]
      BY <2>1, SubSeqProperties
    <3>2. n - (n - 1) + 1 = 2 /\ n - 1 <= n /\ (n - 1) + 1 - 1 = n - 1
          /\ (n - 1) + 2 - 1 = n
      BY <2>1
    <3>3. Len(s) = 2 /\ 1 \in 1 .. 2 /\ 2 \in 1 .. 2
      BY <3>1, <3>2
    <3> HIDE DEF s
    <3> QED BY <3>1, <3>2, <3>3
  <2>3. /\ Len(t) = 2 /\ t[1] = [of |-> prompt, part |-> 1]
        /\ t[2] = [of |-> prompt, part |-> 2]
    BY DEF Halves
  <2>4. s = <<s[1], s[2]>> /\ t = <<t[1], t[2]>>
    <3>1. t = <<t[1], t[2]>>
      BY DEF Halves
    <3>2. <<s[1], s[2]>> \in Seq(Pieces) /\ Len(<<s[1], s[2]>>) = 2
      BY <2>1, <2>2, <1>1, <1>3, <1>4
    <3>3. \A i \in 1 .. Len(s) : s[i] = <<s[1], s[2]>>[i]
      <4> HIDE DEF s
      <4>1. <<s[1], s[2]>>[1] = s[1] /\ <<s[1], s[2]>>[2] = s[2]
        OBVIOUS
      <4> QED BY <2>2, <4>1
    <3> HIDE DEF s, t
    <3> QED BY <2>2, <3>1, <3>2, <3>3, SeqEqual
  <2> HIDE DEF s, t
  <2>5. s = t <=> s[1] = t[1] /\ s[2] = t[2]
    BY <2>4
  <2> QED BY <2>2, <2>3, <2>5 DEF s, t
<1>5. ASSUME PromptIn(pieces) # "none"
      PROVE  PromptIn(pieces) \in Prompts /\ EndsWith(pieces, PromptIn(pieces))
  <2>1. /\ n > 1 /\ PromptIn(pieces) = pieces[n].of /\ pieces[n].of \in Prompts
        /\ SubSeq(pieces, n - 1, n) = Halves(pieces[n].of)
    BY <1>2, <1>5
  <2>2. /\ pieces[n - 1] = [of |-> pieces[n].of, part |-> 1]
        /\ pieces[n] = [of |-> pieces[n].of, part |-> 2]
    BY <1>4, <2>1
  <2>3. \A i \in n + 1 .. Len(pieces) : pieces[i] = Blank
    BY <1>1, <1>3
  <2> QED BY <1>1, <1>3, <2>1, <2>2, <2>3 DEF EndsWith
<1>6. ASSUME NEW prompt \in Prompts, EndsWith(pieces, prompt)
      PROVE  PromptIn(pieces) = prompt
  <2>1. PICK k \in 2 .. Len(pieces) :
          /\ pieces[k] = [of |-> prompt, part |-> 2]
          /\ pieces[k - 1] = [of |-> prompt, part |-> 1]
          /\ \A i \in k + 1 .. Len(pieces) : pieces[i] = Blank
    BY <1>6 DEF EndsWith
  <2>2. pieces[k] # Blank
    BY <2>1 DEF Blank
  <2>3. n = k
    BY <1>1, <1>3, <2>1, <2>2
  <2>4. n > 1 /\ pieces[n].of = prompt /\ SubSeq(pieces, n - 1, n) = Halves(pieces[n].of)
    BY <1>3, <1>4, <2>1, <2>3
  <2> QED BY <1>2, <2>4
<1> QED BY <1>5, <1>6

\* What is kept of a text is its end; what was cut off ended with a line.
LEMMA KeptIsEnd ==
  ASSUME NEW text \in Seq(Pieces)
  PROVE  \E k \in 0 .. Len(text) :
           /\ SinceNewline(text) \in Seq(Pieces) /\ Len(SinceNewline(text)) = Len(text) - k
           /\ \A i \in 1 .. Len(text) - k : SinceNewline(text)[i] = text[i + k]
           /\ k > 0 => EndsLine(text[k])
           /\ \A i \in 1 .. Len(text) : EndsLine(text[i]) => i <= k
<1> DEFINE k == SelectLastInSeq(text, EndsLine)
           s == SinceNewline(text)
           n == Len(text)
<1>1. /\ k \in 0 .. n /\ (k > 0 => EndsLine(text[k]))
      /\ \A i \in 1 .. n : EndsLine(text[i]) => i <= k
  BY LastNewline
<1>2. n \in Nat /\ \A i \in 1 .. n : text[i] \in Pieces
  BY LenProperties, ElementOfSeq
<1>3. s = SubSeq(text, k + 1, n)
  BY DEF SinceNewline
<1> HIDE DEF k, s, n
<1>4. /\ s \in Seq(Pieces) /\ Len(s) = IF k + 1 <= n THEN n - (k + 1) + 1 ELSE 0
      /\ \A i \in 1 .. n - (k + 1) + 1 : s[i] = text[(k + 1) + i - 1]
  <2>1. k + 1 \in Int /\ n \in Int /\ \A i \in k + 1 .. n : text[i] \in Pieces
    BY <1>1, <1>2
  <2> QED BY <1>3, <2>1, SubSeqProperties
<1>5. Len(s) = n - k
  BY <1>1, <1>2, <1>4
<1>6. ASSUME NEW i \in 1 .. n - k PROVE s[i] = text[i + k]
  <2>1. n - (k + 1) + 1 = n - k /\ (k + 1) + i - 1 = i + k
    BY <1>1, <1>2
  <2> QED BY <1>4, <2>1
<1>7. /\ SinceNewline(text) \in Seq(Pieces) /\ Len(SinceNewline(text)) = Len(text) - k
      /\ \A i \in 1 .. Len(text) - k : SinceNewline(text)[i] = text[i + k]
  BY <1>4, <1>5, <1>6 DEF s, n
<1> QED BY <1>1, <1>7 DEF n

\* A read takes n pieces of a pipe; W is what was heard and what is in the pipe.
LEMMA ReadView ==
  ASSUME NEW h \in Seq(Pieces), NEW w \in Seq(Pieces), NEW n \in 1 .. Len(w)
  PROVE  LET whole == h \o w
             text == h \o SubSeq(w, 1, n)
             rest == SubSeq(w, n + 1, Len(w))
         IN /\ whole \in Seq(Pieces) /\ text \in Seq(Pieces) /\ rest \in Seq(Pieces)
            /\ Len(whole) = Len(h) + Len(w) /\ Len(text) = Len(h) + n
            /\ Len(rest) = Len(w) - n /\ Len(h) \in Nat /\ Len(w) \in Nat
            /\ \A i \in 1 .. Len(h) + n : text[i] = whole[i]
            /\ \A i \in 1 .. Len(w) - n : rest[i] = w[n + i]
            /\ \A i \in 1 .. Len(w) : whole[Len(h) + i] = w[i]
            /\ \A i \in 1 .. Len(h) : whole[i] = h[i]
<1> DEFINE whole == h \o w
           first == SubSeq(w, 1, n)
           text == h \o first
           rest == SubSeq(w, n + 1, Len(w))
<1>1. Len(h) \in Nat /\ Len(w) \in Nat /\ \A i \in 1 .. Len(w) : w[i] \in Pieces
  BY LenProperties, ElementOfSeq
<1>2. /\ first \in Seq(Pieces) /\ Len(first) = n
      /\ \A i \in 1 .. n : first[i] = w[i]
  <2>1. 1 \in Int /\ n \in Int /\ \A i \in 1 .. n : w[i] \in Pieces
    BY <1>1
  <2>2. /\ first \in Seq(Pieces) /\ Len(first) = IF 1 <= n THEN n - 1 + 1 ELSE 0
        /\ \A i \in 1 .. n - 1 + 1 : first[i] = w[1 + i - 1]
    BY <2>1, SubSeqProperties
  <2>3. n - 1 + 1 = n /\ 1 <= n /\ \A i \in 1 .. n : 1 + i - 1 = i
    BY <1>1
  <2> HIDE DEF first
  <2> QED BY <2>2, <2>3
<1>3. /\ rest \in Seq(Pieces) /\ Len(rest) = Len(w) - n
      /\ \A i \in 1 .. Len(w) - n : rest[i] = w[n + i]
  <2> DEFINE l == Len(w)
  <2>1. n + 1 \in Int /\ l \in Int /\ \A i \in n + 1 .. l : w[i] \in Pieces
    BY <1>1
  <2>2. /\ rest \in Seq(Pieces) /\ Len(rest) = IF n + 1 <= l THEN l - (n + 1) + 1 ELSE 0
        /\ \A i \in 1 .. l - (n + 1) + 1 : rest[i] = w[(n + 1) + i - 1]
    BY <2>1, SubSeqProperties
  <2>3. l - (n + 1) + 1 = l - n /\ l \in Nat /\ n <= l
        /\ \A i \in 1 .. l - n : (n + 1) + i - 1 = n + i
    BY <1>1
  <2> HIDE DEF rest, l
  <2>4. Len(rest) = l - n
    BY <2>2, <2>3
  <2> QED BY <2>2, <2>3, <2>4 DEF l
<1>4. /\ whole \in Seq(Pieces) /\ Len(whole) = Len(h) + Len(w)
      /\ \A i \in 1 .. Len(h) + Len(w) :
           whole[i] = IF i <= Len(h) THEN h[i] ELSE w[i - Len(h)]
  BY ConcatProperties
<1>5. /\ text \in Seq(Pieces) /\ Len(text) = Len(h) + n
      /\ \A i \in 1 .. Len(h) + n :
           text[i] = IF i <= Len(h) THEN h[i] ELSE first[i - Len(h)]
  <2> HIDE DEF first
  <2> QED BY <1>2, ConcatProperties
<1> HIDE DEF whole, first, text, rest
<1>6. ASSUME NEW i \in 1 .. Len(h) + n PROVE text[i] = whole[i]
  <2>1. i \in 1 .. Len(h) + Len(w) /\ (~(i <= Len(h)) => i - Len(h) \in 1 .. n)
    BY <1>1
  <2>2. text[i] = IF i <= Len(h) THEN h[i] ELSE first[i - Len(h)]
    BY <1>5
  <2>3. whole[i] = IF i <= Len(h) THEN h[i] ELSE w[i - Len(h)]
    BY <1>4, <2>1
  <2> QED BY <1>2, <2>1, <2>2, <2>3
<1>7. ASSUME NEW i \in 1 .. Len(w) PROVE whole[Len(h) + i] = w[i]
  <2>1. Len(h) + i \in 1 .. Len(h) + Len(w) /\ ~(Len(h) + i <= Len(h))
        /\ (Len(h) + i) - Len(h) = i
    BY <1>1
  <2> QED BY <1>4, <2>1
<1>8. ASSUME NEW i \in 1 .. Len(h) PROVE whole[i] = h[i]
  BY <1>1, <1>4
<1> QED BY <1>1, <1>3, <1>4, <1>5, <1>6, <1>7, <1>8 DEF whole, first, text, rest

LEMMA PlainFindsNone ==
  ASSUME NEW text \in Seq(Pieces), Plain(text)
  PROVE  PromptIn(text) = "none"
<1>1. ASSUME NEW prompt \in Prompts, EndsWith(text, prompt) PROVE FALSE
  <2>1. PICK k \in 2 .. Len(text) : text[k] = [of |-> prompt, part |-> 2]
    BY <1>1 DEF EndsWith
  <2>2. k \in 1 .. Len(text)
    BY <2>1, LenProperties
  <2> QED BY <2>1, <2>2 DEF Plain
<1> QED BY <1>1, PromptFound

LEMMA PlainRead ==
  ASSUME NEW h \in Seq(Pieces), NEW w \in Seq(Pieces), NEW n \in 1 .. Len(w),
         Plain(h), Plain(w)
  PROVE  LET text == h \o SubSeq(w, 1, n)
         IN /\ Plain(text) /\ Plain(SinceNewline(text)) /\ SinceNewline(text) \in Seq(Pieces)
            /\ PromptIn(text) = "none" /\ PromptIn(SinceNewline(text)) = "none"
            /\ Plain(SubSeq(w, n + 1, Len(w))) /\ SubSeq(w, n + 1, Len(w)) \in Seq(Pieces)
<1> DEFINE whole == h \o w
           text == h \o SubSeq(w, 1, n)
           rest == SubSeq(w, n + 1, Len(w))
           left == SinceNewline(text)
<1>1. /\ whole \in Seq(Pieces) /\ text \in Seq(Pieces) /\ rest \in Seq(Pieces)
      /\ Len(whole) = Len(h) + Len(w) /\ Len(text) = Len(h) + n
      /\ Len(rest) = Len(w) - n /\ Len(h) \in Nat /\ Len(w) \in Nat
      /\ \A i \in 1 .. Len(h) + n : text[i] = whole[i]
      /\ \A i \in 1 .. Len(w) - n : rest[i] = w[n + i]
      /\ \A i \in 1 .. Len(w) : whole[Len(h) + i] = w[i]
      /\ \A i \in 1 .. Len(h) : whole[i] = h[i]
  BY ReadView
<1> HIDE DEF whole, rest, text
<1>2. Plain(text)
  <2>1. ASSUME NEW i \in 1 .. Len(text) PROVE text[i].of \notin Prompts
    <3>1. CASE i <= Len(h)
      <4>1. i \in 1 .. Len(h) /\ i \in 1 .. Len(h) + n
        BY <1>1, <3>1
      <4>2. text[i] = h[i]
        BY <1>1, <4>1
      <4> QED BY <4>1, <4>2 DEF Plain
    <3>2. CASE ~(i <= Len(h))
      <4>1. i - Len(h) \in 1 .. Len(w) /\ Len(h) + (i - Len(h)) = i
        BY <1>1, <3>2
      <4>2. text[i] = whole[i]
        BY <1>1
      <4>3. whole[Len(h) + (i - Len(h))] = w[i - Len(h)]
        BY <1>1, <4>1
      <4> QED BY <4>1, <4>2, <4>3 DEF Plain
    <3> QED BY <3>1, <3>2
  <2> QED BY <2>1 DEF Plain
<1>3. Plain(rest)
  <2>1. \A i \in 1 .. Len(rest) : n + i \in 1 .. Len(w) /\ rest[i] = w[n + i]
    BY <1>1
  <2> QED BY <2>1 DEF Plain
<1>4. PICK k \in 0 .. Len(text) :
           /\ left \in Seq(Pieces) /\ Len(left) = Len(text) - k
           /\ \A i \in 1 .. Len(text) - k : left[i] = text[i + k]
  BY <1>1, KeptIsEnd
<1> HIDE DEF left
<1>5. Plain(left)
  <2>1. Len(text) \in Nat
    BY <1>1
  <2>2. \A i \in 1 .. Len(text) - k : i + k \in 1 .. Len(text)
    BY <2>1
  <2> QED BY <1>2, <1>4, <2>2 DEF Plain
<1> QED BY <1>1, <1>2, <1>3, <1>4, <1>5, PlainFindsNone DEF whole, rest, text, left

\* A chunk that holds the second half ends with the prompt; one that does not leaves the
\* prompt at the end of what is still to come.
LEMMA ChunkRead ==
  ASSUME NEW h \in Seq(Pieces), NEW w \in Seq(Pieces), NEW n \in 1 .. Len(w),
         NEW prompt \in Prompts, EndsAsking(h \o w, prompt)
  PROVE  LET text == SinceNewline(h \o SubSeq(w, 1, n))
             rest == SubSeq(w, n + 1, Len(w))
         IN /\ text \in Seq(Pieces) /\ rest \in Seq(Pieces)
            /\ \/ PromptIn(text) = "none" /\ EndsAsking(text \o rest, prompt)
               \/ PromptIn(text) = prompt /\ Plain(rest)
<1> DEFINE whole == h \o w
           all == h \o SubSeq(w, 1, n)
           rest == SubSeq(w, n + 1, Len(w))
           text == SinceNewline(all)
           L == Len(whole)
           m == Len(all)
<1>1. /\ whole \in Seq(Pieces) /\ all \in Seq(Pieces) /\ rest \in Seq(Pieces)
      /\ L \in Nat /\ m \in 1 .. L /\ Len(rest) = L - m
      /\ \A i \in 1 .. m : all[i] = whole[i]
      /\ \A i \in 1 .. L - m : rest[i] = whole[m + i]
  <2>1. /\ whole \in Seq(Pieces) /\ all \in Seq(Pieces) /\ rest \in Seq(Pieces)
        /\ Len(whole) = Len(h) + Len(w) /\ Len(all) = Len(h) + n
        /\ Len(rest) = Len(w) - n /\ Len(h) \in Nat /\ Len(w) \in Nat
        /\ \A i \in 1 .. Len(h) + n : all[i] = whole[i]
        /\ \A i \in 1 .. Len(w) - n : rest[i] = w[n + i]
        /\ \A i \in 1 .. Len(w) : whole[Len(h) + i] = w[i]
    BY ReadView
  <2> HIDE DEF whole, all, rest
  <2>2. L \in Nat /\ m \in 1 .. L /\ L - m = Len(w) - n
    BY <2>1
  <2>3. ASSUME NEW i \in 1 .. L - m PROVE rest[i] = whole[m + i]
    <3>1. n + i \in 1 .. Len(w) /\ m + i = Len(h) + (n + i) /\ i \in 1 .. Len(w) - n
      BY <2>1, <2>2
    <3> QED BY <2>1, <3>1
  <2> QED BY <2>1, <2>2, <2>3
<1>2. /\ L >= 3 /\ whole[L] = Blank
      /\ whole[L - 2] = [of |-> prompt, part |-> 1]
      /\ whole[L - 1] = [of |-> prompt, part |-> 2]
      /\ \A i \in 1 .. L - 3 : whole[i].of \notin Prompts
  BY DEF EndsAsking
<1> HIDE DEF whole, all, rest
<1>3. PICK k \in 0 .. m :
           /\ text \in Seq(Pieces) /\ Len(text) = m - k
           /\ \A i \in 1 .. m - k : text[i] = all[i + k]
           /\ k > 0 => EndsLine(all[k])
  BY <1>1, KeptIsEnd
<1> HIDE DEF text, L, m
<1>4. k <= L - 3 /\ L \in Nat /\ L >= 3 /\ m \in Nat /\ m <= L /\ k \in Nat /\ k <= m
  <2>1. k > 0 => k \in 1 .. m /\ whole[k].of \in Lines
    BY <1>1, <1>3 DEF EndsLine
  <2>2. Lines \cap Prompts = {} /\ "blank" \notin Lines
    BY DEF Lines, Events, Prompts
  <2>3. k > 0 => k # L /\ k # L - 1 /\ k # L - 2
    <3>1. whole[L].of = "blank" /\ whole[L - 1].of = prompt /\ whole[L - 2].of = prompt
      BY <1>2 DEF Blank
    <3> QED BY <2>1, <2>2, <3>1
  <2> QED BY <1>1, <1>2, <2>1, <2>3
<1>5. \A i \in 1 .. m - k : i + k \in 1 .. m /\ text[i] = whole[i + k]
  BY <1>1, <1>3
<1>6. CASE m >= L - 1
  <2> DEFINE q == (L - 1) - k
  <2>1. /\ q \in 2 .. m - k /\ q + k = L - 1 /\ q - 1 \in 1 .. m - k
        /\ (q - 1) + k = L - 2 /\ q \in 1 .. m - k
    BY <1>4, <1>6
  <2>2. text[q] = [of |-> prompt, part |-> 2] /\ text[q - 1] = [of |-> prompt, part |-> 1]
    BY <1>2, <1>5, <2>1
  <2>3. ASSUME NEW i \in q + 1 .. m - k PROVE text[i] = Blank
    <3>1. i \in 1 .. m - k /\ i + k = L
      BY <1>1, <1>2, <1>4, <2>1
    <3> QED BY <1>2, <1>5, <3>1
  <2> HIDE DEF q
  <2>4. EndsWith(text, prompt)
    BY <1>3, <2>1, <2>2, <2>3 DEF EndsWith
  <2>5. PromptIn(text) = prompt
    BY <1>3, <2>4, PromptFound
  <2>6. Plain(rest)
    <3>1. ASSUME NEW i \in 1 .. Len(rest) PROVE rest[i].of \notin Prompts
      <4>1. i \in 1 .. L - m /\ m + i = L
        BY <1>1, <1>6
      <4>2. rest[i] = Blank
        BY <1>1, <1>2, <4>1
      <4> QED BY <4>2 DEF Blank, Prompts
    <3> QED BY <3>1 DEF Plain
  <2> QED BY <1>1, <1>3, <2>5, <2>6 DEF text, rest, all
<1>7. CASE ~(m >= L - 1)
  <2>1. ASSUME NEW p \in Prompts, EndsWith(text, p) PROVE FALSE
    <3>1. PICK q \in 2 .. m - k : text[q] = [of |-> p, part |-> 2]
      BY <1>3, <2>1 DEF EndsWith
    <3>2. q + k \in 1 .. L - 2 /\ whole[q + k] = [of |-> p, part |-> 2]
      BY <1>1, <1>3, <1>5, <1>7, <3>1
    <3>3. q + k # L - 2
      BY <1>2, <3>2
    <3>4. q + k \in 1 .. L - 3
      BY <1>1, <3>2, <3>3
    <3> QED BY <1>2, <3>2, <3>4
  <2>2. PromptIn(text) = "none"
    BY <1>3, <2>1, PromptFound
  <2> DEFINE next == text \o rest
  <2>3. /\ next \in Seq(Pieces) /\ Len(next) = Len(text) + Len(rest)
        /\ \A i \in 1 .. Len(text) + Len(rest) :
             next[i] = IF i <= Len(text) THEN text[i] ELSE rest[i - Len(text)]
    BY <1>1, <1>3, ConcatProperties
  <2> HIDE DEF next
  <2>4. Len(next) = L - k
    BY <1>1, <1>3, <2>3
  <2>5. ASSUME NEW i \in 1 .. L - k PROVE next[i] = whole[i + k]
    <3>1. CASE i <= m - k
      <4>1. i \in 1 .. m - k /\ i \in 1 .. (m - k) + (L - m)
        BY <1>4, <3>1
      <4>2. next[i] = text[i]
        BY <1>1, <1>3, <2>3, <3>1, <4>1
      <4> QED BY <1>5, <4>1, <4>2
    <3>2. CASE ~(i <= m - k)
      <4>1. i - (m - k) \in 1 .. L - m /\ m + (i - (m - k)) = i + k
        BY <1>1, <1>3, <3>2
      <4>2. next[i] = rest[i - (m - k)]
        BY <1>1, <1>3, <2>3, <2>4, <3>2
      <4> QED BY <1>1, <4>1, <4>2
    <3> QED BY <3>1, <3>2
  <2> DEFINE c == L - k
  <2>6. /\ c >= 3 /\ c \in 1 .. L - k /\ c - 1 \in 1 .. L - k /\ c - 2 \in 1 .. L - k
        /\ c + k = L /\ (c - 1) + k = L - 1 /\ (c - 2) + k = L - 2
    BY <1>4
  <2>7. ASSUME NEW i \in 1 .. c - 3 PROVE next[i].of \notin Prompts
    <3>1. i \in 1 .. L - k /\ i + k \in 1 .. L - 3
      <4>1. L \in Nat /\ m \in Nat /\ k \in Nat /\ k <= m /\ m <= L
        BY <1>1
      <4> HIDE DEF L, m
      <4> QED BY <4>1
    <3> QED BY <1>2, <2>5, <3>1
  <2>8. /\ next[c] = Blank /\ next[c - 1] = [of |-> prompt, part |-> 2]
        /\ next[c - 2] = [of |-> prompt, part |-> 1]
    BY <1>2, <2>5, <2>6
  <2>9. EndsAsking(next, prompt)
    BY <2>4, <2>6, <2>7, <2>8 DEF EndsAsking
  <2> QED BY <1>1, <1>3, <2>2, <2>9 DEF text, rest, all, next
<1> QED BY <1>6, <1>7

-----------------------------------------------------------------------------
(* The bytes that macOS reads one after the other: here a piece.             *)

LEMMA PieceView ==
  ASSUME NEW h \in Seq(Pieces), NEW w \in Seq(Pieces), w # <<>>
  PROVE  LET text == h \o SubSeq(w, 1, 1)
             rest == SubSeq(w, 2, Len(w))
             left == SinceNewline(text)
         IN /\ text \in Seq(Pieces) /\ rest \in Seq(Pieces) /\ left \in Seq(Pieces)
            /\ Len(h) \in Nat /\ Len(w) \in Nat \ {0} /\ Len(text) = Len(h) + 1
            /\ \A i \in 1 .. Len(h) : text[i] = h[i]
            /\ text[Len(h) + 1] = w[1] /\ Head(w) = w[1]
            /\ Len(rest) = Len(w) - 1 /\ \A i \in 1 .. Len(w) - 1 : rest[i] = w[1 + i]
            /\ \E k \in Nat : /\ Len(left) = Len(text) - k
                              /\ \A i \in 1 .. Len(left) :
                                   i + k \in 1 .. Len(text) /\ left[i] = text[i + k]
<1> DEFINE whole == h \o w
           text == h \o SubSeq(w, 1, 1)
           rest == SubSeq(w, 2, Len(w))
           left == SinceNewline(text)
<1>1. Len(w) \in Nat \ {0} /\ 1 \in 1 .. Len(w) /\ Head(w) = w[1]
  BY LenProperties, HeadTailProperties
<1>2. /\ whole \in Seq(Pieces) /\ text \in Seq(Pieces) /\ rest \in Seq(Pieces)
      /\ Len(text) = Len(h) + 1 /\ Len(rest) = Len(w) - 1 /\ Len(h) \in Nat
      /\ \A i \in 1 .. Len(h) + 1 : text[i] = whole[i]
      /\ \A i \in 1 .. Len(w) - 1 : rest[i] = w[1 + i]
      /\ \A i \in 1 .. Len(w) : whole[Len(h) + i] = w[i]
      /\ \A i \in 1 .. Len(h) : whole[i] = h[i]
  <2> DEFINE Read(n, t, r) ==
         /\ whole \in Seq(Pieces) /\ t \in Seq(Pieces) /\ r \in Seq(Pieces)
         /\ Len(t) = Len(h) + n /\ Len(r) = Len(w) - n /\ Len(h) \in Nat
         /\ \A i \in 1 .. Len(h) + n : t[i] = whole[i]
         /\ \A i \in 1 .. Len(w) - n : r[i] = w[n + i]
         /\ \A i \in 1 .. Len(w) : whole[Len(h) + i] = w[i]
         /\ \A i \in 1 .. Len(h) : whole[i] = h[i]
  <2>1. \A n \in 1 .. Len(w) : Read(n, h \o SubSeq(w, 1, n), SubSeq(w, n + 1, Len(w)))
    BY ReadView
  <2> HIDE DEF Read
  <2>2. Read(1, text, SubSeq(w, 1 + 1, Len(w)))
    BY <1>1, <2>1
  <2>3. SubSeq(w, 1 + 1, Len(w)) = rest
    OBVIOUS
  <2>4. Read(1, text, rest)
    BY <2>2, <2>3
  <2> HIDE DEF text, rest, whole
  <2> QED BY <2>4 DEF Read
<1> HIDE DEF whole, text, rest
<1>3. /\ \A i \in 1 .. Len(h) : text[i] = h[i]
      /\ text[Len(h) + 1] = w[1]
  BY <1>1, <1>2
<1>4. PICK k \in 0 .. Len(text) :
           /\ left \in Seq(Pieces) /\ Len(left) = Len(text) - k
           /\ \A i \in 1 .. Len(text) - k : left[i] = text[i + k]
  BY <1>2, KeptIsEnd
<1> HIDE DEF left
<1>5. Len(text) \in Nat /\ k \in Nat
  BY <1>2
<1>6. \A i \in 1 .. Len(text) - k : i + k \in 1 .. Len(text)
  BY <1>5
<1> QED BY <1>1, <1>2, <1>3, <1>4, <1>5, <1>6 DEF text, rest, left

\* A prompt is found when its second half comes directly after its first.
LEMMA PieceRead ==
  ASSUME NEW h \in Seq(Pieces), NEW w \in Seq(Pieces), w # <<>>, NEW q \in Prompts
  PROVE  LET text == h \o SubSeq(w, 1, 1)
             left == SinceNewline(text)
         IN /\ Plain(h) /\ w[1].of \notin Prompts => Plain(left) /\ PromptIn(text) = "none"
            /\ FirstHalves(h, q) /\ (w[1].of \in Prompts => w[1] = [of |-> q, part |-> 1])
                 => FirstHalves(left, q) /\ PromptIn(text) = "none"
            /\ PromptIn(h) = "none" /\ w[1].of \notin Prompts => PromptIn(text) = "none"
            /\ w[1] = [of |-> q, part |-> 2] => PromptIn(text) \in {"none", q}
            /\ w[1].of \in Lines => PromptIn(text) = "none"
            /\ PromptIn(text) = "none" => PromptIn(left) = "none"
<1> DEFINE text == h \o SubSeq(w, 1, 1)
           left == SinceNewline(text)
           n == Len(h)
<1>1. /\ text \in Seq(Pieces) /\ left \in Seq(Pieces)
      /\ n \in Nat /\ Len(text) = n + 1
      /\ \A i \in 1 .. n : text[i] = h[i]
      /\ text[n + 1] = w[1]
      /\ \E k \in Nat : /\ Len(left) = Len(text) - k
                        /\ \A i \in 1 .. Len(left) :
                             i + k \in 1 .. Len(text) /\ left[i] = text[i + k]
  BY PieceView
<1>2. PICK k \in Nat : /\ Len(left) = Len(text) - k
                       /\ \A i \in 1 .. Len(left) :
                            i + k \in 1 .. Len(text) /\ left[i] = text[i + k]
  BY <1>1
<1> SUFFICES /\ Plain(h) /\ w[1].of \notin Prompts => Plain(left) /\ PromptIn(text) = "none"
             /\ FirstHalves(h, q) /\ (w[1].of \in Prompts => w[1] = [of |-> q, part |-> 1])
                  => FirstHalves(left, q) /\ PromptIn(text) = "none"
             /\ PromptIn(h) = "none" /\ w[1].of \notin Prompts => PromptIn(text) = "none"
             /\ w[1] = [of |-> q, part |-> 2] => PromptIn(text) \in {"none", q}
             /\ w[1].of \in Lines => PromptIn(text) = "none"
             /\ PromptIn(text) = "none" => PromptIn(left) = "none"
  OBVIOUS
<1> HIDE DEF text, left, n
<1>3. \A i \in 1 .. Len(text) : (i \in 1 .. n /\ text[i] = h[i]) \/ (i = n + 1 /\ text[i] = w[1])
  BY <1>1
<1>4. ASSUME Plain(h), w[1].of \notin Prompts
      PROVE  Plain(left) /\ PromptIn(text) = "none"
  <2>1. Plain(text)
    BY <1>3, <1>4 DEF Plain, n
  <2>2. Plain(left)
    BY <1>2, <2>1 DEF Plain
  <2> QED BY <1>1, <2>1, <2>2, PlainFindsNone
<1>5. ASSUME FirstHalves(h, q), w[1].of \in Prompts => w[1] = [of |-> q, part |-> 1]
      PROVE  FirstHalves(left, q) /\ PromptIn(text) = "none"
  <2>1. FirstHalves(text, q)
    BY <1>3, <1>5 DEF FirstHalves, n
  <2>2. FirstHalves(left, q)
    BY <1>2, <2>1 DEF FirstHalves
  <2>3. ASSUME NEW p \in Prompts, EndsWith(text, p) PROVE FALSE
    <3>1. PICK i \in 2 .. Len(text) : text[i] = [of |-> p, part |-> 2]
      BY <2>3 DEF EndsWith
    <3>2. i \in 1 .. Len(text) /\ text[i].of = p /\ text[i].part = 2
      BY <1>1, <3>1
    <3>3. text[i] = [of |-> q, part |-> 1]
      BY <2>1, <3>2 DEF FirstHalves
    <3> QED BY <3>2, <3>3
  <2> QED BY <1>1, <2>2, <2>3, PromptFound
<1>6. ASSUME NEW p \in Prompts, EndsWith(text, p)
      PROVE  (w[1] = Blank /\ EndsWith(h, p)) \/ w[1] = [of |-> p, part |-> 2]
  <2>1. PICK i \in 2 .. Len(text) :
          /\ text[i] = [of |-> p, part |-> 2] /\ text[i - 1] = [of |-> p, part |-> 1]
          /\ \A j \in i + 1 .. Len(text) : text[j] = Blank
    BY <1>6 DEF EndsWith
  <2>2. CASE i = n + 1
    BY <1>1, <2>1, <2>2
  <2>3. CASE i # n + 1
    <3>1. /\ i \in 2 .. n /\ i \in 1 .. n /\ i - 1 \in 1 .. n
          /\ n + 1 \in i + 1 .. Len(text)
      BY <1>1, <2>1, <2>3
    <3>2. \A j \in i + 1 .. n : j \in 1 .. n /\ j \in i + 1 .. Len(text)
      BY <1>1, <3>1
    <3>3. /\ h[i] = [of |-> p, part |-> 2] /\ h[i - 1] = [of |-> p, part |-> 1]
          /\ \A j \in i + 1 .. n : h[j] = Blank
      BY <1>1, <2>1, <3>1, <3>2
    <3>4. EndsWith(h, p)
      BY <3>1, <3>3 DEF EndsWith, n
    <3> QED BY <1>1, <2>1, <3>1, <3>4
  <2> QED BY <2>2, <2>3
<1>7. ASSUME PromptIn(h) = "none", w[1].of \notin Prompts
      PROVE  PromptIn(text) = "none"
  <2>1. ASSUME NEW p \in Prompts, EndsWith(text, p) PROVE FALSE
    <3>1. w[1] # [of |-> p, part |-> 2]
      BY <1>7
    <3>2. EndsWith(h, p)
      BY <1>6, <2>1, <3>1
    <3>3. PromptIn(h) = p
      BY <3>2, PromptFound
    <3> QED BY <1>7, <3>3 DEF Prompts
  <2> QED BY <1>1, <2>1, PromptFound
<1>8. ASSUME w[1] = [of |-> q, part |-> 2]
      PROVE  PromptIn(text) \in {"none", q}
  <2>1. ASSUME PromptIn(text) # "none" PROVE PromptIn(text) = q
    <3>1. PromptIn(text) \in Prompts /\ EndsWith(text, PromptIn(text))
      BY <1>1, <2>1, PromptFound
    <3>2. w[1] = Blank \/ w[1] = [of |-> PromptIn(text), part |-> 2]
      BY <1>6, <3>1
    <3>3. w[1] # Blank /\ w[1].of = q
      BY <1>8 DEF Blank
    <3> QED BY <3>2, <3>3
  <2> QED BY <2>1
<1>9. ASSUME w[1].of \in Lines
      PROVE  PromptIn(text) = "none"
  <2>1. ASSUME NEW p \in Prompts, EndsWith(text, p) PROVE FALSE
    <3>1. w[1] = Blank \/ w[1] = [of |-> p, part |-> 2]
      BY <1>6, <2>1
    <3> QED BY <1>9, <3>1 DEF Blank, Lines, Events, Prompts
  <2> QED BY <1>1, <2>1, PromptFound
<1>10. ASSUME PromptIn(text) = "none"
       PROVE  PromptIn(left) = "none"
  <2>1. ASSUME NEW p \in Prompts, EndsWith(left, p) PROVE FALSE
    <3>1. PICK i \in 2 .. Len(left) :
            /\ left[i] = [of |-> p, part |-> 2] /\ left[i - 1] = [of |-> p, part |-> 1]
            /\ \A j \in i + 1 .. Len(left) : left[j] = Blank
      BY <2>1 DEF EndsWith
    <3>2. Len(text) \in Nat /\ Len(left) = Len(text) - k /\ k \in Nat
      BY <1>1, <1>2
    <3>3. /\ i \in 1 .. Len(left) /\ i - 1 \in 1 .. Len(left) /\ i + k \in 2 .. Len(text)
          /\ (i + k) - 1 = (i - 1) + k
      BY <3>1, <3>2
    <3>4. text[i + k] = [of |-> p, part |-> 2] /\ text[(i + k) - 1] = [of |-> p, part |-> 1]
      BY <1>2, <3>1, <3>3
    <3>5. ASSUME NEW j \in (i + k) + 1 .. Len(text) PROVE text[j] = Blank
      <4>1. /\ j - k \in i + 1 .. Len(left) /\ j - k \in 1 .. Len(left) /\ (j - k) + k = j
        BY <3>1, <3>2
      <4> QED BY <1>2, <3>1, <4>1
    <3>6. EndsWith(text, p)
      BY <3>3, <3>4, <3>5 DEF EndsWith
    <3>7. PromptIn(text) = p
      BY <1>1, <3>6, PromptFound
    <3> QED BY <1>10, <3>7 DEF Prompts
  <2> QED BY <1>1, <2>1, PromptFound
<1> QED BY <1>4, <1>5, <1>7, <1>8, <1>9, <1>10

LEMMA LineEndsNoPrompt ==
  ASSUME NEW h \in Seq(Pieces), NEW w \in Seq(Pieces), w # <<>>, w[1].of \in Lines
  PROVE  PromptIn(h \o SubSeq(w, 1, 1)) = "none"
<1>1. "password" \in Prompts
  BY DEF Prompts
<1> QED BY <1>1, PieceRead

\* What is left of the prompt in the pipe.
LEMMA PromptShrinks ==
  ASSUME NEW w \in Seq(Pieces), NEW q \in Prompts, w # <<>>
  PROVE  LET rest == SubSeq(w, 2, Len(w))
         IN /\ rest \in Seq(Pieces)
            /\ Plain(w) => Plain(rest)
            /\ EndsAsking(w, q) =>
                 \/ w[1].of \notin Prompts /\ EndsAsking(rest, q)
                 \/ /\ w[1] = [of |-> q, part |-> 1]
                    /\ rest = <<[of |-> q, part |-> 2], Blank>>
            /\ w = <<[of |-> q, part |-> 2], Blank>> =>
                 w[1] = [of |-> q, part |-> 2] /\ rest = <<Blank>>
            /\ w = <<Blank>> => w[1] = Blank /\ rest = <<>>
<1> DEFINE rest == SubSeq(w, 2, Len(w))
           n == Len(w)
<1>1. /\ rest \in Seq(Pieces) /\ n \in Nat \ {0}
      /\ Len(rest) = n - 1 /\ \A i \in 1 .. n - 1 : rest[i] = w[1 + i]
  <2>1. <<>> \in Seq(Pieces)
    OBVIOUS
  <2> QED BY <2>1, PieceView
<1>2. [of |-> q, part |-> 2] \in Pieces /\ Blank \in Pieces
  BY DEF Pieces, Blank
<1> SUFFICES /\ Plain(w) => Plain(rest)
             /\ EndsAsking(w, q) =>
                  \/ w[1].of \notin Prompts /\ EndsAsking(rest, q)
                  \/ /\ w[1] = [of |-> q, part |-> 1]
                     /\ rest = <<[of |-> q, part |-> 2], Blank>>
             /\ w = <<[of |-> q, part |-> 2], Blank>> =>
                  w[1] = [of |-> q, part |-> 2] /\ rest = <<Blank>>
             /\ w = <<Blank>> => w[1] = Blank /\ rest = <<>>
  BY <1>1
<1> HIDE DEF rest, n
<1>3. ASSUME Plain(w) PROVE Plain(rest)
  <2>1. \A i \in 1 .. n - 1 : 1 + i \in 1 .. n
    BY <1>1
  <2> QED BY <1>1, <1>3, <2>1 DEF Plain, n
<1>4. ASSUME EndsAsking(w, q)
      PROVE  \/ w[1].of \notin Prompts /\ EndsAsking(rest, q)
             \/ w[1] = [of |-> q, part |-> 1] /\ rest = <<[of |-> q, part |-> 2], Blank>>
  <2>1. /\ n >= 3 /\ w[n] = Blank /\ w[n - 2] = [of |-> q, part |-> 1]
        /\ w[n - 1] = [of |-> q, part |-> 2]
        /\ \A i \in 1 .. n - 3 : w[i].of \notin Prompts
    BY <1>4 DEF EndsAsking, n
  <2>2. CASE n = 3
    <3>1. w[1] = [of |-> q, part |-> 1] /\ w[2] = [of |-> q, part |-> 2] /\ w[3] = Blank
      BY <2>1, <2>2
    <3>2. Len(rest) = 2 /\ rest[1] = w[2] /\ rest[2] = w[3]
      BY <1>1, <2>2
    <3> DEFINE t == <<[of |-> q, part |-> 2], Blank>>
    <3>3. /\ t \in Seq(Pieces) /\ Len(t) = 2 /\ t[1] = [of |-> q, part |-> 2]
          /\ t[2] = Blank
      BY <1>2
    <3> HIDE DEF t
    <3>4. \A i \in 1 .. Len(rest) : rest[i] = t[i]
      BY <3>1, <3>2, <3>3
    <3>5. rest = t
      BY <1>1, <3>2, <3>3, <3>4, SeqEqual
    <3> QED BY <3>1, <3>5 DEF t
  <2>3. CASE n # 3
    <3> DEFINE m == n - 1
    <3>1. /\ m >= 3 /\ 1 \in 1 .. n - 3 /\ m \in 1 .. n - 1 /\ m - 1 \in 1 .. n - 1
          /\ m - 2 \in 1 .. n - 1 /\ 1 + m = n /\ 1 + (m - 1) = n - 1 /\ 1 + (m - 2) = n - 2
      BY <1>1, <2>1, <2>3
    <3>2. \A i \in 1 .. m - 3 : i \in 1 .. n - 1 /\ 1 + i \in 1 .. n - 3
      BY <1>1, <3>1
    <3>3. /\ rest[m] = Blank /\ rest[m - 1] = [of |-> q, part |-> 2]
          /\ rest[m - 2] = [of |-> q, part |-> 1]
          /\ \A i \in 1 .. m - 3 : rest[i].of \notin Prompts
      BY <1>1, <2>1, <3>1, <3>2
    <3> QED BY <1>1, <2>1, <3>1, <3>3 DEF EndsAsking
  <2> QED BY <2>2, <2>3
<1>5. ASSUME w = <<[of |-> q, part |-> 2], Blank>>
      PROVE  w[1] = [of |-> q, part |-> 2] /\ rest = <<Blank>>
  <2>1. n = 2 /\ w[1] = [of |-> q, part |-> 2] /\ w[2] = Blank
    BY <1>5 DEF n
  <2>2. Len(rest) = 1 /\ rest[1] = Blank
    BY <1>1, <2>1
  <2> DEFINE t == <<Blank>>
  <2>3. t \in Seq(Pieces) /\ Len(t) = 1 /\ t[1] = Blank
    BY <1>2
  <2> HIDE DEF t
  <2>4. \A i \in 1 .. Len(rest) : rest[i] = t[i]
    BY <2>2, <2>3
  <2>5. rest = t
    BY <1>1, <2>2, <2>3, <2>4, SeqEqual
  <2> QED BY <2>1, <2>5 DEF t
<1>6. ASSUME w = <<Blank>>
      PROVE  w[1] = Blank /\ rest = <<>>
  <2>1. n = 1 /\ w[1] = Blank
    BY <1>6 DEF n
  <2>2. Len(rest) = 0
    BY <1>1, <2>1
  <2> QED BY <1>1, <2>1, <2>2, EmptySeq
<1> QED BY <1>3, <1>4, <1>5, <1>6

-----------------------------------------------------------------------------
(* The steps that hear something.                                            *)

LEMMA EmptyHeard == /\ <<>> \in Seq(Pieces) /\ Plain(<<>>) /\ PromptIn(<<>>) = "none"
                    /\ Plain(<<Blank>>)
<1>1. <<>> \in Seq(Pieces) /\ Plain(<<>>)
  BY DEF Plain
<1>2. Plain(<<Blank>>)
  BY DEF Plain, Blank, Prompts
<1> QED BY <1>1, <1>2, PlainFindsNone

LEMMA StepChunk ==
  ASSUME SessionInv, NEW s \in Sources, NEW n, FeedChunk(s, n)
  PROVE  SessionInv'
<1> DEFINE h == heard[s]
           w == pipe[s]
           text == SinceNewline(h \o SubSeq(w, 1, n))
           rest == SubSeq(w, n + 1, Len(w))
<1>1. /\ platform # "macos" /\ at = "loop" /\ n \in 1 .. Len(w)
      /\ pipe' = [pipe EXCEPT ![s] = rest]
      /\ \/ PromptIn(text) = "none" /\ heard' = [heard EXCEPT ![s] = text]
            /\ UNCHANGED <<at, due>>
         \/ PromptIn(text) # "none" /\ heard' = [heard EXCEPT ![s] = <<>>]
            /\ due' = PromptIn(text)
            /\ at' = IF PromptIn(text) = "challenge" THEN "code" ELSE "answer"
      /\ UNCHANGED <<platform, stop, prompts, reported, forced, connector, asked, helpers,
                     said, stdin>>
  BY DEF FeedChunk, Take, Text, Hear, Answering, Detector, childVars
<1>2. h \in Seq(Pieces) /\ w \in Seq(Pieces) /\ due = "none"
  BY <1>1 DEF SessionInv, TaskAgrees
<1>3. text \in Seq(Pieces) /\ rest \in Seq(Pieces) /\ <<>> \in Seq(Pieces)
  <2>1. h \o SubSeq(w, 1, n) \in Seq(Pieces) /\ rest \in Seq(Pieces)
    BY <1>1, <1>2, ReadView
  <2>2. text \in Seq(Pieces)
    BY <2>1, KeptIsEnd
  <2> HIDE DEF text, rest
  <2> QED BY <2>1, <2>2, EmptyHeard
<1>4. PromptIn(text) # "none" => PromptIn(text) \in Prompts
  BY <1>3, PromptFound
<1>5. Plain(h) /\ Plain(w) => PromptIn(text) = "none" /\ Plain(text) /\ Plain(rest)
  BY <1>1, <1>2, PlainRead
<1>6. ASSUME Unanswered, s = "err"
      PROVE  \/ PromptIn(text) = "none" /\ EndsAsking(text \o rest, asked)
             \/ PromptIn(text) = asked /\ Plain(rest)
  <2>1. asked \in Prompts /\ EndsAsking(h \o w, asked)
    BY <1>1, <1>6 DEF SessionInv, OutputAgrees
  <2> QED BY <1>1, <1>2, <2>1, ChunkRead
<1> HIDE DEF h, w, text, rest
<1>7. /\ heard' \in [Sources -> Seq(Pieces)] /\ pipe' \in [Sources -> Seq(Pieces)]
      /\ pipe'[s] = rest /\ \A o \in Sources \ {s} : heard'[o] = heard[o] /\ pipe'[o] = pipe[o]
      /\ PromptIn(text) = "none" => heard'[s] = text
      /\ PromptIn(text) # "none" => heard'[s] = <<>>
  BY <1>1, <1>3 DEF SessionInv
<1>8. connector # "gone" /\ PromptIn(text) # "none" => /\ Unanswered /\ s = "err"
                                                      /\ PromptIn(text) = asked
  <2>1. ASSUME connector # "gone", ~(Unanswered /\ s = "err") PROVE Plain(h) /\ Plain(w)
    BY <1>1, <2>1 DEF SessionInv, OutputAgrees, AllPlain, Sources, h, w
  <2> QED BY <1>5, <1>6, <2>1
<1>9. TaskAgrees'
  BY <1>1, <1>4 DEF SessionInv, TaskAgrees
<1>10. PromptTypeOK' /\ ReportedOnce'
  BY <1>1, <1>4 DEF SessionInv, PromptTypeOK, ReportedOnce
<1>11. AnswersFit'
  BY <1>1, <1>2, <1>8 DEF SessionInv, AnswersFit, Unanswered
<1>12. OutputAgrees'
  <2>1. CASE connector = "gone"
    BY <1>1, <2>1 DEF OutputAgrees, Unanswered
  <2>2. CASE connector # "gone" /\ ~Unanswered
    <3>1. \A o \in Sources : Plain(heard[o]) /\ Plain(pipe[o])
      BY <2>2 DEF SessionInv, OutputAgrees, AllPlain
    <3>2. Plain(text) /\ Plain(rest) /\ PromptIn(text) = "none"
      BY <1>5, <3>1 DEF h, w
    <3>3. AllPlain'
      BY <1>7, <3>1, <3>2 DEF AllPlain
    <3>4. ~Unanswered'
      BY <1>1, <2>2, <3>2 DEF Unanswered
    <3> QED BY <3>3, <3>4 DEF OutputAgrees
  <2>3. CASE Unanswered /\ s = "out"
    <3>1. /\ Plain(h) /\ Plain(w) /\ asked \in Prompts
          /\ EndsAsking(heard["err"] \o pipe["err"], asked)
      BY <1>1, <2>3 DEF SessionInv, OutputAgrees, h, w
    <3>2. /\ heard'["out"] = text /\ pipe'["out"] = rest /\ Plain(text) /\ Plain(rest)
          /\ heard'["err"] = heard["err"] /\ pipe'["err"] = pipe["err"] /\ UNCHANGED due
      BY <1>1, <1>5, <1>7, <2>3, <3>1 DEF Sources
    <3>3. Unanswered' /\ asked' = asked /\ platform' = platform
      BY <1>1, <2>3, <3>2 DEF Unanswered
    <3> QED BY <1>1, <3>1, <3>2, <3>3 DEF OutputAgrees
  <2>4. CASE Unanswered /\ s = "err"
    <3>1. Plain(heard["out"]) /\ Plain(pipe["out"]) /\ asked \in Prompts
      BY <1>1, <2>4 DEF SessionInv, OutputAgrees
    <3>2. heard'["out"] = heard["out"] /\ pipe'["out"] = pipe["out"] /\ pipe'["err"] = rest
      BY <1>7, <2>4 DEF Sources
    <3>3. CASE PromptIn(text) = "none"
      <4>1. EndsAsking(text \o rest, asked) /\ heard'["err"] = text /\ UNCHANGED due
        BY <1>1, <1>6, <1>7, <2>4, <3>1, <3>3 DEF Prompts
      <4>2. Unanswered' /\ asked' = asked /\ platform' = platform
        BY <1>1, <2>4, <4>1 DEF Unanswered
      <4> QED BY <1>1, <3>1, <3>2, <4>1, <4>2 DEF OutputAgrees
    <3>4. CASE PromptIn(text) # "none"
      <4>1. Plain(rest) /\ heard'["err"] = <<>> /\ due' # "none"
        BY <1>1, <1>6, <1>7, <2>4, <3>4
      <4>2. ~Unanswered'
        BY <4>1 DEF Unanswered
      <4>3. AllPlain'
        BY <3>1, <3>2, <4>1, EmptyHeard DEF AllPlain, Sources
      <4> QED BY <4>2, <4>3 DEF OutputAgrees
    <3> QED BY <3>3, <3>4
  <2> QED BY <2>1, <2>2, <2>3, <2>4 DEF Sources, Unanswered
<1>13. reported' \in Seq(Events) /\ stdin' \in Seq(Prompts)
  BY <1>1 DEF SessionInv
<1> QED BY <1>7, <1>9, <1>10, <1>11, <1>12, <1>13 DEF SessionInv

LEMMA ReportedGrows ==
  ASSUME reported \in Seq(Events), ReportedOnce, NEW event \in Events, Report(event)
  PROVE  reported' \in Seq(Events) /\ ReportedOnce'
<1>1. CASE Contains(reported, event)
  BY <1>1 DEF Report, ReportedOnce
<1>2. CASE ~Contains(reported, event)
  <2>1. reported' = Append(reported, event) /\ \A i \in 1 .. Len(reported) : reported[i] # event
    BY <1>2 DEF Report, Contains
  <2>2. /\ reported' \in Seq(Events) /\ Len(reported) \in Nat
        /\ Len(reported') = Len(reported) + 1
        /\ \A i \in 1 .. Len(reported) : reported'[i] = reported[i]
        /\ reported'[Len(reported) + 1] = event
    BY <2>1, AppendProperties, LenProperties
  <2>3. DOMAIN reported' = 1 .. Len(reported) + 1 /\ DOMAIN reported = 1 .. Len(reported)
    BY <2>2, LenProperties
  <2>4. \A i \in 1 .. Len(reported) + 1 : i \in 1 .. Len(reported) \/ i = Len(reported) + 1
    BY <2>2
  <2>5. \A i, j \in 1 .. Len(reported) : reported[i] = reported[j] => i = j
    BY <2>3 DEF ReportedOnce, IsInjective
  <2>6. \A i, j \in DOMAIN reported' : reported'[i] = reported'[j] => i = j
    BY <2>1, <2>2, <2>3, <2>4, <2>5
  <2> QED BY <2>2, <2>6 DEF ReportedOnce, IsInjective
<1> QED BY <1>1, <1>2

\* What FeedBytes makes of a piece.
LEMMA BytesCases ==
  ASSUME SessionInv, NEW s \in Sources, FeedBytes(s)
  PROVE  LET text == heard["out"] \o SubSeq(pipe[s], 1, 1)
         IN /\ platform = "macos" /\ at = "loop" /\ pipe[s] # <<>>
            /\ pipe' = [pipe EXCEPT ![s] = SubSeq(pipe[s], 2, Len(pipe[s]))]
            /\ UNCHANGED <<platform, stop, forced, connector, asked, helpers, said, stdin>>
            /\ \/ /\ Head(pipe[s]).of \in Lines
                  /\ at' = "failed" /\ UNCHANGED <<due, heard, prompts, reported>>
               \/ /\ PromptIn(text) # "none" /\ heard' = [heard EXCEPT !["out"] = <<>>]
                  /\ reported' = reported
                  /\ \/ at' = "failed" /\ UNCHANGED <<due, prompts>>
                     \/ /\ due' = PromptIn(text) /\ at' \in {"code", "answer"}
                        /\ prompts < MaxPrompts /\ prompts' = prompts + 1
               \/ /\ PromptIn(text) = "none"
                  /\ heard' = [heard EXCEPT !["out"] = SinceNewline(text)]
                  /\ UNCHANGED <<due, prompts>> /\ at' \in {"loop", "failed"}
                  /\ reported' = reported \/ \E event \in Events : Report(event)
<1> DEFINE text == heard["out"] \o SubSeq(pipe[s], 1, 1)
<1>1. /\ platform = "macos" /\ at = "loop" /\ pipe[s] # <<>>
      /\ pipe' = [pipe EXCEPT ![s] = SubSeq(pipe[s], 2, Len(pipe[s]))]
      /\ UNCHANGED <<platform, stop, forced, connector, asked, helpers, said, stdin>>
  BY DEF FeedBytes, Take, childVars
<1>2. Text(s, 1) = text
  BY <1>1 DEF Text, Detector
<1>3. LineRead(text) => /\ at' \in {at, "failed"}
                        /\ reported' = reported \/ \E event \in Events : Report(event)
  BY DEF LineRead, Events
<1> HIDE DEF text
<1>4. CASE Head(pipe[s]) = Halves("long")[2]
  <2>1. Head(pipe[s]).of \in Lines
    BY <1>4 DEF Halves, Lines
  <2>2. PromptIn(Text(s, 1)) = "none"
    <3>1. /\ heard["out"] \in Seq(Pieces) /\ pipe[s] \in Seq(Pieces)
          /\ "password" \in Prompts
      BY DEF SessionInv, Sources, Prompts
    <3>2. Head(pipe[s]) = pipe[s][1]
      BY <1>1, <3>1, PieceView
    <3>3. pipe[s][1].of \in Lines
      BY <2>1, <3>2
    <3>4. text = heard["out"] \o SubSeq(pipe[s], 1, 1)
      BY DEF text
    <3>5. PromptIn(heard["out"] \o SubSeq(pipe[s], 1, 1)) = "none"
      BY <1>1, <3>1, <3>3, LineEndsNoPrompt
    <3> QED BY <1>2, <3>4, <3>5
  <2>3. at' = "failed" /\ UNCHANGED <<due, heard, prompts, reported>>
    BY <1>4, <2>2 DEF FeedBytes
  <2> QED BY <1>1, <2>1, <2>3
<1>5. CASE Head(pipe[s]) # Halves("long")[2] /\ PromptIn(text) # "none"
  <2>1. /\ IF prompts >= MaxPrompts THEN at' = "failed" /\ UNCHANGED <<due, prompts>>
           ELSE Answering(PromptIn(text)) /\ prompts' = prompts + 1
        /\ Hear(s, <<>>) /\ UNCHANGED reported
    BY <1>2, <1>5 DEF FeedBytes
  <2>2. heard' = [heard EXCEPT !["out"] = <<>>]
    BY <1>1, <2>1 DEF Hear, Detector
  <2>3. prompts \in 0 .. MaxPrompts /\ MaxPrompts \in Nat
    BY PromptAssumption DEF SessionInv, PromptTypeOK
  <2>4. ~(prompts >= MaxPrompts) => prompts < MaxPrompts
    BY <2>3
  <2> QED BY <1>1, <1>5, <2>1, <2>2, <2>4 DEF Answering, text
<1>6. CASE Head(pipe[s]) # Halves("long")[2] /\ ~(PromptIn(text) # "none")
  <2>1. /\ IF EndsLine(Last(text)) THEN LineRead(text) ELSE UNCHANGED <<at, reported>>
        /\ Hear(s, SinceNewline(text)) /\ UNCHANGED <<due, prompts>>
    BY <1>2, <1>6 DEF FeedBytes
  <2>2. heard' = [heard EXCEPT !["out"] = SinceNewline(text)]
    BY <1>1, <2>1 DEF Hear, Detector
  <2>3. at' \in {"loop", "failed"}
        /\ (reported' = reported \/ \E event \in Events : Report(event))
    BY <1>1, <1>3, <2>1
  <2> QED BY <1>1, <1>6, <2>1, <2>2, <2>3 DEF text
<1> QED BY <1>4, <1>5, <1>6

LEMMA StepByte ==
  ASSUME SessionInv, NEW s \in Sources, FeedBytes(s)
  PROVE  SessionInv'
<1> DEFINE h == heard["out"]
           w == pipe[s]
           text == h \o SubSeq(w, 1, 1)
           left == SinceNewline(text)
           rest == SubSeq(w, 2, Len(w))
           Failed == /\ Head(w).of \in Lines
                     /\ at' = "failed" /\ UNCHANGED <<due, heard, prompts, reported>>
           Found == /\ PromptIn(text) # "none" /\ heard' = [heard EXCEPT !["out"] = <<>>]
                    /\ reported' = reported
                    /\ \/ at' = "failed" /\ UNCHANGED <<due, prompts>>
                       \/ /\ due' = PromptIn(text) /\ at' \in {"code", "answer"}
                          /\ prompts < MaxPrompts /\ prompts' = prompts + 1
           Passed == /\ PromptIn(text) = "none" /\ heard' = [heard EXCEPT !["out"] = left]
                     /\ UNCHANGED <<due, prompts>> /\ at' \in {"loop", "failed"}
                     /\ reported' = reported \/ \E event \in Events : Report(event)
<1>1. /\ platform = "macos" /\ at = "loop" /\ w # <<>>
      /\ pipe' = [pipe EXCEPT ![s] = rest]
      /\ UNCHANGED <<platform, stop, forced, connector, asked, helpers, said, stdin>>
      /\ Failed \/ Found \/ Passed
  BY BytesCases
<1>2. h \in Seq(Pieces) /\ w \in Seq(Pieces) /\ due = "none"
  BY <1>1 DEF SessionInv, TaskAgrees, Sources
<1>3. /\ text \in Seq(Pieces) /\ left \in Seq(Pieces) /\ rest \in Seq(Pieces)
      /\ Head(w) = w[1]
  BY <1>1, <1>2, PieceView
<1>4. /\ \A q \in Prompts :
           /\ FirstHalves(h, q) /\ (w[1].of \in Prompts => w[1] = [of |-> q, part |-> 1])
                => FirstHalves(left, q) /\ PromptIn(text) = "none"
           /\ w[1] = [of |-> q, part |-> 2] => PromptIn(text) \in {"none", q}
      /\ Plain(h) /\ w[1].of \notin Prompts => Plain(left) /\ PromptIn(text) = "none"
      /\ PromptIn(h) = "none" /\ w[1].of \notin Prompts => PromptIn(text) = "none"
      /\ PromptIn(text) = "none" => PromptIn(left) = "none"
  <2>1. \A q \in Prompts :
           /\ FirstHalves(h, q) /\ (w[1].of \in Prompts => w[1] = [of |-> q, part |-> 1])
                => FirstHalves(left, q) /\ PromptIn(text) = "none"
           /\ w[1] = [of |-> q, part |-> 2] => PromptIn(text) \in {"none", q}
    BY <1>1, <1>2, PieceRead
  <2>2. "password" \in Prompts
    BY DEF Prompts
  <2>3. /\ Plain(h) /\ w[1].of \notin Prompts => Plain(left) /\ PromptIn(text) = "none"
        /\ PromptIn(h) = "none" /\ w[1].of \notin Prompts => PromptIn(text) = "none"
        /\ PromptIn(text) = "none" => PromptIn(left) = "none"
    BY <1>1, <1>2, <2>2, PieceRead
  <2> QED BY <2>1, <2>3
<1>5. PromptIn(text) # "none" => PromptIn(text) \in Prompts
  BY <1>3, PromptFound
<1>6. Plain(w) => w[1].of \notin Prompts /\ Plain(rest)
  <2>1. Len(w) \in Nat \ {0} /\ 1 \in 1 .. Len(w)
    BY <1>1, <1>2, EmptySeq
  <2>2. "password" \in Prompts
    BY DEF Prompts
  <2> QED BY <1>1, <1>2, <2>1, <2>2, PromptShrinks DEF Plain
<1>7. \A q \in Prompts :
        /\ EndsAsking(w, q) =>
             \/ w[1].of \notin Prompts /\ EndsAsking(rest, q)
             \/ w[1] = [of |-> q, part |-> 1] /\ rest = <<[of |-> q, part |-> 2], Blank>>
        /\ w = <<[of |-> q, part |-> 2], Blank>> =>
             w[1] = [of |-> q, part |-> 2] /\ rest = <<Blank>>
        /\ w = <<Blank>> => w[1] = Blank /\ rest = <<>>
  BY <1>1, <1>2, PromptShrinks
<1> HIDE DEF text, left, rest, h, w
<1>8. /\ heard' \in [Sources -> Seq(Pieces)] /\ pipe' \in [Sources -> Seq(Pieces)]
      /\ pipe'[s] = rest /\ \A o \in Sources \ {s} : pipe'[o] = pipe[o]
      /\ heard'["err"] = heard["err"]
      /\ Failed => heard'["out"] = h
      /\ Found => heard'["out"] = <<>>
      /\ Passed => heard'["out"] = left
  <2>1. <<>> \in Seq(Pieces) /\ "out" \in Sources /\ "err" \in Sources
    BY EmptyHeard DEF Sources
  <2>2. pipe' \in [Sources -> Seq(Pieces)] /\ pipe'[s] = rest
        /\ \A o \in Sources \ {s} : pipe'[o] = pipe[o]
    BY <1>1, <1>3 DEF SessionInv
  <2>3. heard \in [Sources -> Seq(Pieces)]
    BY DEF SessionInv
  <2>4. ASSUME Failed
        PROVE  heard' = heard /\ heard'["out"] = h
    BY <2>4 DEF h
  <2>5. ASSUME NEW l \in Seq(Pieces), heard' = [heard EXCEPT !["out"] = l]
        PROVE  /\ heard' \in [Sources -> Seq(Pieces)] /\ heard'["out"] = l
               /\ heard'["err"] = heard["err"]
    BY <2>1, <2>3, <2>5
  <2>6. Found => heard' = [heard EXCEPT !["out"] = <<>>]
    OBVIOUS
  <2>7. Passed => heard' = [heard EXCEPT !["out"] = left]
    OBVIOUS
  <2> HIDE DEF Failed, Found, Passed
  <2> QED BY <1>1, <1>3, <2>1, <2>2, <2>3, <2>4, <2>5, <2>6, <2>7
<1>9. ASSUME connector # "gone", ~Unanswered
      PROVE  PromptIn(text) = "none" /\ AllPlain'
  <2>1. \A o \in Sources : Plain(heard[o]) /\ Plain(pipe[o])
    BY <1>9 DEF SessionInv, OutputAgrees, AllPlain
  <2>2. Plain(h) /\ Plain(rest) /\ Plain(left) /\ PromptIn(text) = "none"
    BY <1>4, <1>6, <2>1 DEF h, w, Sources
  <2>3. AllPlain'
    BY <1>1, <1>8, <2>1, <2>2, EmptyHeard DEF AllPlain, Sources
  <2> QED BY <2>2, <2>3
<1>10. ASSUME Unanswered
       PROVE  /\ PromptIn(text) \in {"none", asked}
              /\ Plain(pipe'["out"]) /\ Plain(heard'["err"]) /\ asked \in Prompts
              /\ \/ Plain(heard'["out"]) /\ EndsAsking(pipe'["err"], asked)
                 \/ Half(asked)'
                 \/ Hidden'
              /\ PromptIn(text) # "none" => Plain(heard'["out"]) /\ Plain(pipe'["err"])
  <2>1. /\ asked \in Prompts /\ asked' = asked /\ Plain(pipe["out"]) /\ Plain(heard["err"])
        /\ Plain(heard'["err"])
        /\ \/ Plain(h) /\ EndsAsking(pipe["err"], asked)
           \/ Half(asked)
           \/ Hidden
    BY <1>1, <1>8, <1>10 DEF SessionInv, OutputAgrees, h
  <2>2. CASE s = "out"
    <3>1. w[1].of \notin Prompts /\ Plain(rest) /\ pipe'["out"] = rest
          /\ pipe'["err"] = pipe["err"]
      BY <1>6, <1>8, <2>1, <2>2 DEF w, Sources
    <3>2. CASE Plain(h) /\ EndsAsking(pipe["err"], asked)
      <4>1. PromptIn(text) = "none" /\ Plain(left)
        BY <1>4, <3>1, <3>2
      <4>2. Plain(heard'["out"])
        BY <1>1, <1>8, <3>2, <4>1
      <4> QED BY <2>1, <3>1, <3>2, <4>1, <4>2
    <3>3. CASE Half(asked)
      <4>1. PromptIn(text) = "none" /\ FirstHalves(left, asked) /\ FirstHalves(h, asked)
        BY <1>4, <2>1, <3>1, <3>3 DEF Half, h
      <4>2. FirstHalves(heard'["out"], asked)
        BY <1>1, <1>8, <4>1
      <4>3. Half(asked)'
        BY <2>1, <3>1, <3>3, <4>2 DEF Half
      <4> QED BY <2>1, <3>1, <4>1, <4>3
    <3>4. CASE Hidden
      <4>1. PromptIn(text) = "none" /\ PromptIn(left) = "none" /\ PromptIn(h) = "none"
        BY <1>4, <3>1, <3>4 DEF Hidden, h
      <4>2. PromptIn(heard'["out"]) = "none"
        BY <1>1, <1>8, <4>1
      <4>3. Hidden'
        BY <3>1, <3>4, <4>2 DEF Hidden
      <4> QED BY <2>1, <3>1, <4>1, <4>3
    <3> QED BY <2>1, <3>2, <3>3, <3>4
  <2>3. CASE s = "err"
    <3>1. pipe'["out"] = pipe["out"] /\ pipe'["err"] = rest /\ w = pipe["err"]
      BY <1>8, <2>3 DEF Sources, w
    <3>2. Lines \cap Prompts = {} /\ Blank.of \notin Lines /\ Blank.of \notin Prompts
      BY DEF Lines, Prompts, Events, Blank
    <3>3. CASE Plain(h) /\ EndsAsking(pipe["err"], asked)
      <4>1. CASE w[1].of \notin Prompts /\ EndsAsking(rest, asked)
        <5>1. PromptIn(text) = "none" /\ Plain(left)
          BY <1>4, <3>3, <4>1
        <5>2. Plain(heard'["out"])
          BY <1>1, <1>8, <3>3, <5>1
        <5> QED BY <2>1, <3>1, <4>1, <5>1, <5>2
      <4>2. CASE /\ w[1] = [of |-> asked, part |-> 1]
                 /\ rest = <<[of |-> asked, part |-> 2], Blank>>
        <5>1. FirstHalves(h, asked)
          BY <3>3 DEF FirstHalves, Plain
        <5>2. PromptIn(text) = "none" /\ FirstHalves(left, asked)
          BY <1>4, <2>1, <4>2, <5>1
        <5>3. FirstHalves(heard'["out"], asked)
          BY <1>1, <1>8, <5>1, <5>2
        <5>4. Half(asked)'
          BY <2>1, <3>1, <4>2, <5>3 DEF Half
        <5> QED BY <2>1, <3>1, <5>2, <5>4
      <4> QED BY <1>7, <2>1, <3>1, <3>3, <4>1, <4>2
    <3>4. CASE Half(asked)
      <4>1. w[1] = [of |-> asked, part |-> 2] /\ rest = <<Blank>>
        BY <1>7, <2>1, <3>1, <3>4 DEF Half
      <4>2. PromptIn(text) \in {"none", asked} /\ ~Failed
        <5>1. PromptIn(text) \in {"none", asked}
          BY <1>4, <2>1, <4>1
        <5>2. Head(w).of = asked
          BY <1>3, <4>1
        <5>3. ~Failed
          BY <2>1, <3>2, <5>2
        <5> QED BY <5>1, <5>3
      <4>3. PromptIn(heard'["out"]) = "none"
        BY <1>1, <1>4, <1>8, <4>2, EmptyHeard
      <4>4. Hidden'
        BY <3>1, <4>1, <4>3 DEF Hidden
      <4>5. PromptIn(text) # "none" => Plain(heard'["out"]) /\ Plain(pipe'["err"])
        BY <1>1, <1>8, <3>1, <4>1, <4>2, EmptyHeard
      <4> QED BY <2>1, <3>1, <4>2, <4>4, <4>5
    <3>5. CASE Hidden
      <4>1. w = <<Blank>>
        BY <1>1, <3>1, <3>5 DEF Hidden
      <4>2. w[1] = Blank /\ rest = <<>>
        BY <1>7, <2>1, <4>1
      <4>3. PromptIn(text) = "none" /\ PromptIn(left) = "none" /\ PromptIn(h) = "none"
        BY <1>4, <3>2, <3>5, <4>2 DEF Hidden, h
      <4>4. PromptIn(heard'["out"]) = "none"
        BY <1>1, <1>8, <4>3
      <4>5. Hidden'
        BY <3>1, <4>2, <4>4 DEF Hidden
      <4> QED BY <2>1, <3>1, <4>3, <4>5
    <3> QED BY <2>1, <3>3, <3>4, <3>5
  <2> QED BY <2>2, <2>3 DEF Sources
<1>11. TaskAgrees'
  BY <1>1, <1>5 DEF SessionInv, TaskAgrees
<1>12. reported' \in Seq(Events) /\ ReportedOnce' /\ stdin' \in Seq(Prompts)
  <2>1. CASE reported' = reported
    BY <1>1, <2>1 DEF SessionInv, ReportedOnce
  <2>2. CASE \E event \in Events : Report(event)
    BY <1>1, <2>2, ReportedGrows DEF SessionInv
  <2> QED BY <1>1, <2>1, <2>2
<1>13. PromptTypeOK'
  <2>1. prompts' \in 0 .. MaxPrompts
    <3>1. prompts \in 0 .. MaxPrompts /\ MaxPrompts \in Nat
      BY PromptAssumption DEF SessionInv, PromptTypeOK
    <3>2. prompts < MaxPrompts => prompts + 1 \in 0 .. MaxPrompts
      BY <3>1
    <3> QED BY <1>1, <3>1, <3>2
  <2>2. Range(reported') \subseteq Events
    BY <1>12, LenProperties, ElementOfSeq DEF Range
  <2>3. due' \in Prompts \union {"none"} /\ at' \in {"loop", "code", "answer", "failed"}
    BY <1>1, <1>5 DEF SessionInv, PromptTypeOK
  <2> QED BY <1>1, <2>1, <2>2, <2>3 DEF SessionInv, PromptTypeOK
<1>14. AnswersFit'
  <2>1. due' # "none" => due' = PromptIn(text) /\ PromptIn(text) # "none"
    BY <1>1, <1>2
  <2>2. connector # "gone" /\ due' # "none" => Unanswered /\ due' = asked
    BY <1>9, <1>10, <2>1
  <2> QED BY <1>1, <2>2 DEF SessionInv, AnswersFit, Unanswered
<1>15. OutputAgrees'
  <2>1. CASE connector = "gone"
    BY <1>1, <2>1 DEF OutputAgrees, Unanswered
  <2>2. CASE connector # "gone" /\ ~Unanswered
    <3>1. PromptIn(text) = "none" /\ AllPlain'
      BY <1>9, <2>2
    <3>2. due' = due
      BY <1>1, <3>1
    <3>3. ~Unanswered'
      BY <1>1, <2>2, <3>2 DEF Unanswered
    <3> QED BY <3>1, <3>3 DEF OutputAgrees
  <2>3. CASE Unanswered /\ due' = due
    <3>1. Unanswered' /\ asked' = asked
      BY <1>1, <2>3 DEF Unanswered
    <3> QED BY <1>1, <1>10, <2>3, <3>1 DEF OutputAgrees
  <2>4. CASE Unanswered /\ due' # due
    <3>1. PromptIn(text) # "none" /\ due' # "none"
      BY <1>1, <1>2, <2>4
    <3>2. AllPlain'
      BY <1>10, <2>4, <3>1 DEF AllPlain, Sources
    <3>3. ~Unanswered'
      BY <3>1 DEF Unanswered
    <3> QED BY <3>2, <3>3 DEF OutputAgrees
  <2> QED BY <2>1, <2>2, <2>3, <2>4 DEF Unanswered
<1> QED BY <1>8, <1>11, <1>12, <1>13, <1>14, <1>15 DEF SessionInv

-----------------------------------------------------------------------------
(* The other steps.                                                          *)

\* The output, for steps that leave it alone.
LEMMA OutputStays ==
  ASSUME SessionInv, UNCHANGED <<platform, heard, pipe>>,
         \/ connector' = "gone"
         \/ UNCHANGED <<connector, due, stdin, asked>>
         \/ ~Unanswered /\ connector # "gone" /\ ~Unanswered'
  PROVE  OutputAgrees'
<1>1. CASE connector' = "gone"
  BY <1>1 DEF OutputAgrees, Unanswered
<1>2. CASE UNCHANGED <<connector, due, stdin, asked>>
  BY <1>2 DEF SessionInv, OutputAgrees, Unanswered, AllPlain, Half, Hidden
<1>3. CASE ~Unanswered /\ connector # "gone" /\ ~Unanswered'
  BY <1>3 DEF SessionInv, OutputAgrees, AllPlain
<1> QED BY <1>1, <1>2, <1>3

\* The rest of the invariant, for steps that report nothing.
LEMMA SessionKept ==
  ASSUME SessionInv, UNCHANGED <<platform, prompts, reported>>,
         at' \in {"first", "loop", "code", "answer", "failed", "terminating", "over"},
         due' \in Prompts \union {"none"}, asked' \in Prompts \union {"none"},
         stop' \in BOOLEAN, forced' \in BOOLEAN, helpers' \in BOOLEAN,
         connector' \in {"starting", "talking", "asking", "gone"}, said' \in 0 .. MaxSaid,
         stdin' \in Seq(Prompts), heard' \in [Sources -> Seq(Pieces)],
         pipe' \in [Sources -> Seq(Pieces)],
         AnswersFit', TaskAgrees', OutputAgrees'
  PROVE  SessionInv'
<1>1. PromptTypeOK'
  BY DEF SessionInv, PromptTypeOK
<1> QED BY <1>1 DEF SessionInv, ReportedOnce

LEMMA SessionTypes ==
  ASSUME SessionInv
  PROVE  /\ at \in {"first", "loop", "code", "answer", "failed", "terminating", "over"}
         /\ due \in Prompts \union {"none"} /\ asked \in Prompts \union {"none"}
         /\ stop \in BOOLEAN /\ forced \in BOOLEAN /\ helpers \in BOOLEAN
         /\ connector \in {"starting", "talking", "asking", "gone"} /\ said \in 0 .. MaxSaid
         /\ stdin \in Seq(Prompts) /\ heard \in [Sources -> Seq(Pieces)]
         /\ pipe \in [Sources -> Seq(Pieces)]
  BY DEF SessionInv, PromptTypeOK

LEMMA Answers ==
  /\ \A p \in Prompts : /\ Append(<<>>, p) = <<p>> /\ Tail(<<p>>) = <<>>
                        /\ <<p>> \in Seq(Prompts) /\ <<p>> # <<>>
  /\ \A l \in Seq(Prompts) : /\ \A p \in Prompts : Append(l, p) \in Seq(Prompts)
                             /\ l # <<>> => Tail(l) \in Seq(Prompts)
  /\ "password" \in Prompts /\ "none" \notin Prompts /\ <<>> \in Seq(Prompts)
<1>1. ASSUME NEW p \in Prompts
      PROVE  Append(<<>>, p) = <<p>> /\ Tail(<<p>>) = <<>> /\ <<p>> \in Seq(Prompts)
             /\ <<p>> # <<>>
  OBVIOUS
<1>2. ASSUME NEW l \in Seq(Prompts)
      PROVE  /\ \A p \in Prompts : Append(l, p) \in Seq(Prompts)
             /\ l # <<>> => Tail(l) \in Seq(Prompts)
  BY AppendProperties, HeadTailProperties
<1>3. "password" \in Prompts /\ "none" \notin Prompts /\ <<>> \in Seq(Prompts)
  BY DEF Prompts
<1> QED BY <1>1, <1>2, <1>3

\* The task itself.
LEMMA StepTask ==
  ASSUME SessionInv,
         WriteFirst \/ NextCode \/ WriteAnswer \/ NoticeExit \/ Fail \/ ForceEnd \/ NoticeStop
  PROVE  SessionInv'
<1>1. UNCHANGED <<platform, heard, prompts, reported, said, pipe, asked>>
  BY DEF WriteFirst, NextCode, WriteAnswer, NoticeExit, Fail, ForceEnd, NoticeStop, otherVars
<1>2. stop' = stop
  BY DEF WriteFirst, NextCode, WriteAnswer, NoticeExit, Fail, ForceEnd, NoticeStop, otherVars
<1>3. AnswersFit /\ TaskAgrees
  BY DEF SessionInv
<1>4. CASE WriteFirst
  <2>1. /\ at = "first" /\ due = "none" /\ stdin = <<>> /\ connector \in {"starting", "gone"}
        /\ UNCHANGED <<due, forced, connector, helpers>>
        /\ IF connector = "gone" THEN at' = "failed" /\ UNCHANGED stdin
           ELSE at' = "loop" /\ stdin' = <<"password">>
    BY <1>3, <1>4 DEF WriteFirst, TaskAgrees
  <2>2. AnswersFit' /\ TaskAgrees'
    BY <1>1, <1>3, <2>1 DEF AnswersFit, TaskAgrees
  <2>3. OutputAgrees'
    BY <1>1, <2>1, OutputStays DEF Unanswered
  <2>4. stdin' \in Seq(Prompts)
    BY <2>1, Answers
  <2> QED BY <1>1, <1>2, <2>1, <2>2, <2>3, <2>4, SessionTypes, SessionKept
<1>5. CASE NextCode
  <2>1. /\ at = "code" /\ at' \in {"answer", "failed"}
        /\ UNCHANGED <<due, forced, connector, helpers, stdin>>
    BY <1>5 DEF NextCode
  <2>2. AnswersFit' /\ TaskAgrees'
    BY <1>1, <1>3, <2>1 DEF AnswersFit, TaskAgrees
  <2>3. OutputAgrees'
    BY <1>1, <2>1, OutputStays
  <2> QED BY <1>1, <1>2, <2>1, <2>2, <2>3, SessionTypes, SessionKept
<1>6. CASE WriteAnswer
  <2>1. /\ at = "answer" /\ due # "none" /\ due' = "none" /\ at' \in {"failed", "loop"}
        /\ UNCHANGED <<forced, connector, helpers>>
        /\ \/ connector = "gone" /\ UNCHANGED stdin
           \/ stdin' = Append(stdin, due)
    BY <1>3, <1>6 DEF WriteAnswer, TaskAgrees
  <2>2. due \in Prompts
    BY <2>1, SessionTypes
  <2>3. connector # "gone" => /\ connector = "asking" /\ asked = due /\ stdin = <<>>
                              /\ stdin' = <<asked>>
    BY <1>3, <2>1, <2>2, Answers DEF AnswersFit
  <2>4. AnswersFit' /\ TaskAgrees'
    BY <1>1, <1>3, <2>1, <2>3 DEF AnswersFit, TaskAgrees
  <2>5. connector # "gone" => ~Unanswered /\ ~Unanswered'
    BY <1>1, <2>1, <2>2, <2>3, Answers DEF Unanswered
  <2>6. OutputAgrees'
    BY <1>1, <2>1, <2>5, OutputStays
  <2>7. stdin' \in Seq(Prompts)
    BY <2>1, <2>2, SessionTypes, Answers
  <2> QED BY <1>1, <1>2, <2>1, <2>4, <2>6, <2>7, SessionTypes, SessionKept
<1>7. CASE NoticeExit
  <2>1. /\ connector = "gone" /\ at' = "over" /\ helpers' = (helpers /\ platform # "windows")
        /\ UNCHANGED <<due, forced, connector, stdin>>
    BY <1>7 DEF NoticeExit, Return
  <2>2. AnswersFit' /\ TaskAgrees'
    BY <1>1, <1>3, <2>1 DEF AnswersFit, TaskAgrees
  <2>3. OutputAgrees'
    BY <1>1, <2>1, OutputStays
  <2> QED BY <1>1, <1>2, <2>1, <2>2, <2>3, SessionTypes, SessionKept
<1>8. CASE Fail
  <2>1. /\ at = "failed" /\ UNCHANGED <<due, forced, stdin>>
        /\ \/ at' = "terminating" /\ UNCHANGED <<connector, helpers>>
           \/ connector' = "gone" /\ at' = "over" /\ helpers' = (helpers /\ platform # "windows")
    BY <1>8 DEF Fail, Return
  <2>2. AnswersFit' /\ TaskAgrees'
    <3>1. CASE at' = "terminating" /\ UNCHANGED <<connector, helpers>>
      BY <1>1, <1>3, <2>1, <3>1 DEF AnswersFit, TaskAgrees
    <3>2. CASE connector' = "gone" /\ at' = "over" /\ helpers' = (helpers /\ platform # "windows")
      BY <1>1, <1>3, <2>1, <3>2 DEF AnswersFit, TaskAgrees
    <3> QED BY <2>1, <3>1, <3>2
  <2>3. OutputAgrees'
    BY <1>1, <2>1, OutputStays
  <2> QED BY <1>1, <1>2, <2>1, <2>2, <2>3, SessionTypes, SessionKept
<1>9. CASE ForceEnd
  <2>1. /\ at = "terminating" /\ forced' = TRUE /\ connector' = "gone"
        /\ helpers' = (helpers /\ platform = "macos") /\ UNCHANGED <<at, due, stdin>>
    BY <1>9 DEF ForceEnd
  <2>2. AnswersFit' /\ TaskAgrees'
    BY <1>1, <1>3, <2>1 DEF AnswersFit, TaskAgrees
  <2>3. OutputAgrees'
    BY <1>1, <2>1, OutputStays
  <2> QED BY <1>1, <1>2, <2>1, <2>2, <2>3, SessionTypes, SessionKept
<1>10. CASE NoticeStop
  <2>1. /\ at = "loop" /\ at' = "terminating" /\ UNCHANGED <<due, forced, stdin>>
        /\ \/ UNCHANGED <<connector, helpers>>
           \/ connector' = "gone" /\ helpers' = FALSE
    BY <1>10 DEF NoticeStop
  <2>2. AnswersFit' /\ TaskAgrees'
    BY <1>1, <1>3, <2>1 DEF AnswersFit, TaskAgrees
  <2>3. OutputAgrees'
    BY <1>1, <2>1, OutputStays
  <2> QED BY <1>1, <1>2, <2>1, <2>2, <2>3, SessionTypes, SessionKept
<1> QED BY <1>4, <1>5, <1>6, <1>7, <1>8, <1>9, <1>10

\* The child, where it writes nothing, and the order to stop.
LEMMA StepChild ==
  ASSUME SessionInv,
         ReadFirst \/ TakeAnswer \/ RunHelpers \/ HelpersEnd \/ Exit \/ Stop \/ Deadline
  PROVE  SessionInv'
<1>1. UNCHANGED <<platform, at, due, heard, prompts, reported, forced, said, pipe, asked>>
  BY DEF ReadFirst, TakeAnswer, RunHelpers, HelpersEnd, Exit, Stop, Deadline, taskVars,
         childVars
<1>2. AnswersFit /\ TaskAgrees
  BY DEF SessionInv
<1>3. CASE ReadFirst
  <2>1. /\ connector = "starting" /\ stdin # <<>> /\ connector' = "talking"
        /\ stdin' = Tail(stdin) /\ UNCHANGED <<stop, helpers>>
    BY <1>3 DEF ReadFirst
  <2>2. stdin' = <<>>
    BY <1>2, <2>1, Answers DEF AnswersFit
  <2>3. AnswersFit' /\ TaskAgrees'
    BY <1>1, <1>2, <2>1, <2>2 DEF AnswersFit, TaskAgrees
  <2>4. OutputAgrees'
    BY <1>1, <2>1, OutputStays DEF Unanswered
  <2> QED BY <1>1, <2>1, <2>2, <2>3, <2>4, SessionTypes, SessionKept, Answers
<1>4. CASE TakeAnswer
  <2>1. /\ connector = "asking" /\ stdin # <<>> /\ connector' = "talking"
        /\ stdin' = Tail(stdin) /\ UNCHANGED <<stop, helpers>>
    BY <1>4 DEF TakeAnswer
  <2>2. stdin = <<asked>> /\ due = "none"
    BY <1>2, <2>1 DEF AnswersFit
  <2>3. stdin' = <<>>
    BY <2>1, <2>2
  <2>4. AnswersFit' /\ TaskAgrees'
    BY <1>1, <1>2, <2>1, <2>2, <2>3 DEF AnswersFit, TaskAgrees
  <2>5. OutputAgrees'
    BY <1>1, <2>1, OutputStays DEF Unanswered
  <2> QED BY <1>1, <2>1, <2>3, <2>4, <2>5, SessionTypes, SessionKept, Answers
<1>5. CASE RunHelpers
  <2>1. connector = "talking" /\ helpers' = TRUE /\ UNCHANGED <<stop, connector, stdin>>
    BY <1>5 DEF RunHelpers
  <2>2. AnswersFit' /\ TaskAgrees'
    BY <1>1, <1>2, <2>1 DEF AnswersFit, TaskAgrees
  <2>3. OutputAgrees'
    BY <1>1, <2>1, OutputStays
  <2> QED BY <1>1, <2>1, <2>2, <2>3, SessionTypes, SessionKept
<1>6. CASE HelpersEnd
  <2>1. helpers' = FALSE /\ UNCHANGED <<stop, connector, stdin>>
    BY <1>6 DEF HelpersEnd
  <2>2. AnswersFit' /\ TaskAgrees'
    BY <1>1, <1>2, <2>1 DEF AnswersFit, TaskAgrees
  <2>3. OutputAgrees'
    BY <1>1, <2>1, OutputStays
  <2> QED BY <1>1, <2>1, <2>2, <2>3, SessionTypes, SessionKept
<1>7. CASE Exit
  <2>1. connector' = "gone" /\ UNCHANGED <<stop, helpers, stdin>>
    BY <1>7 DEF Exit
  <2>2. AnswersFit' /\ TaskAgrees'
    BY <1>1, <1>2, <2>1 DEF AnswersFit, TaskAgrees
  <2>3. OutputAgrees'
    BY <1>1, <2>1, OutputStays
  <2> QED BY <1>1, <2>1, <2>2, <2>3, SessionTypes, SessionKept
<1>8. CASE Stop \/ Deadline
  <2>1. stop' = TRUE /\ UNCHANGED <<connector, helpers, stdin>>
    BY <1>8 DEF Stop, Deadline, childVars
  <2>2. AnswersFit' /\ TaskAgrees'
    BY <1>1, <1>2, <2>1 DEF AnswersFit, TaskAgrees
  <2>3. OutputAgrees'
    BY <1>1, <2>1, OutputStays
  <2> QED BY <1>1, <2>1, <2>2, <2>3, SessionTypes, SessionKept
<1> QED BY <1>3, <1>4, <1>5, <1>6, <1>7, <1>8

LEMMA LineWritten ==
  ASSUME NEW w \in Seq(Pieces), NEW line \in Lines
  PROVE  w \o Halves(line) \in Seq(Pieces) /\ (Plain(w) => Plain(w \o Halves(line)))
<1> DEFINE t == Halves(line)
<1>1. t \in Seq(Pieces) /\ Plain(t)
  <2>1. [of |-> line, part |-> 1] \in Pieces /\ [of |-> line, part |-> 2] \in Pieces
    BY DEF Pieces
  <2>2. t \in Seq(Pieces) /\ Len(t) = 2 /\ t[1].of = line /\ t[2].of = line
    BY <2>1 DEF Halves
  <2>3. line \notin Prompts
    BY DEF Lines, Events, Prompts
  <2>4. \A i \in 1 .. 2 : i = 1 \/ i = 2
    OBVIOUS
  <2> QED BY <2>2, <2>3, <2>4 DEF Plain
<1> HIDE DEF t
<1>2. /\ w \o t \in Seq(Pieces) /\ Len(w \o t) = Len(w) + Len(t)
      /\ \A i \in 1 .. Len(w) + Len(t) :
           (w \o t)[i] = IF i <= Len(w) THEN w[i] ELSE t[i - Len(w)]
  BY <1>1, ConcatProperties
<1>3. Len(w) \in Nat /\ Len(t) \in Nat
  BY <1>1, LenProperties
<1>4. ASSUME Plain(w), NEW i \in 1 .. Len(w) + Len(t)
      PROVE  (w \o t)[i].of \notin Prompts
  <2>1. i <= Len(w) => i \in 1 .. Len(w)
    BY <1>3
  <2>2. ~(i <= Len(w)) => i - Len(w) \in 1 .. Len(t)
    BY <1>3
  <2> QED BY <1>1, <1>2, <1>4, <2>1, <2>2 DEF Plain
<1> QED BY <1>2, <1>4 DEF Plain, t

LEMMA PromptWritten ==
  ASSUME NEW h \in Seq(Pieces), NEW w \in Seq(Pieces), NEW q \in Prompts, Plain(h), Plain(w)
  PROVE  LET after == w \o Halves(q) \o <<Blank>>
         IN /\ after \in Seq(Pieces)
            /\ EndsAsking(after, q) /\ EndsAsking(h \o after, q)
<1> DEFINE t == Halves(q)
           v == w \o t
           after == v \o <<Blank>>
           whole == h \o after
           n == Len(w)
           m == Len(h)
<1>1. /\ t \in Seq(Pieces) /\ Len(t) = 2 /\ t[1] = [of |-> q, part |-> 1]
      /\ t[2] = [of |-> q, part |-> 2]
  <2>1. [of |-> q, part |-> 1] \in Pieces /\ [of |-> q, part |-> 2] \in Pieces
    BY DEF Pieces
  <2> QED BY <2>1 DEF Halves
<1>2. <<Blank>> \in Seq(Pieces) /\ Len(<<Blank>>) = 1 /\ <<Blank>>[1] = Blank
  <2>1. Blank \in Pieces
    BY DEF Pieces, Blank
  <2> QED BY <2>1
<1>3. n \in Nat /\ m \in Nat
  BY LenProperties
<1> HIDE DEF t
<1>4. /\ v \in Seq(Pieces) /\ Len(v) = n + 2
      /\ \A i \in 1 .. n + 2 : v[i] = IF i <= n THEN w[i] ELSE t[i - n]
  <2>1. /\ w \o t \in Seq(Pieces) /\ Len(w \o t) = Len(w) + Len(t)
        /\ \A i \in 1 .. Len(w) + Len(t) :
             (w \o t)[i] = IF i <= Len(w) THEN w[i] ELSE t[i - Len(w)]
    BY <1>1, ConcatProperties
  <2> QED BY <1>1, <2>1
<1>5. /\ \A i \in 1 .. n : v[i] = w[i]
      /\ v[n + 1] = t[1] /\ v[n + 2] = t[2]
  <2>1. /\ \A i \in 1 .. n : i \in 1 .. n + 2 /\ i <= n
        /\ n + 1 \in 1 .. n + 2 /\ ~(n + 1 <= n) /\ (n + 1) - n = 1
        /\ n + 2 \in 1 .. n + 2 /\ ~(n + 2 <= n) /\ (n + 2) - n = 2
    BY <1>3
  <2> HIDE DEF n, v
  <2> QED BY <1>4, <2>1
<1> HIDE DEF v
<1>6. /\ after \in Seq(Pieces) /\ Len(after) = (n + 2) + 1
      /\ \A i \in 1 .. (n + 2) + 1 :
           after[i] = IF i <= n + 2 THEN v[i] ELSE <<Blank>>[i - (n + 2)]
  BY <1>2, <1>4, ConcatProperties
<1>7. /\ \A i \in 1 .. n : after[i] = w[i]
      /\ after[n + 1] = [of |-> q, part |-> 1] /\ after[n + 2] = [of |-> q, part |-> 2]
      /\ after[n + 3] = Blank /\ Len(after) = n + 3
  <2>1. /\ \A i \in 1 .. n : i \in 1 .. (n + 2) + 1 /\ i <= n + 2
        /\ n + 1 \in 1 .. (n + 2) + 1 /\ n + 1 <= n + 2
        /\ n + 2 \in 1 .. (n + 2) + 1 /\ n + 2 <= n + 2
        /\ n + 3 \in 1 .. (n + 2) + 1 /\ ~(n + 3 <= n + 2) /\ (n + 3) - (n + 2) = 1
        /\ (n + 2) + 1 = n + 3
    BY <1>3
  <2> HIDE DEF n, after
  <2> QED BY <1>1, <1>2, <1>5, <1>6, <2>1
<1> HIDE DEF after
<1>8. EndsAsking(after, q)
  <2>1. /\ n + 3 >= 3 /\ (n + 3) - 2 = n + 1 /\ (n + 3) - 1 = n + 2 /\ (n + 3) - 3 = n
    BY <1>3
  <2>2. \A i \in 1 .. n : after[i].of \notin Prompts
    BY <1>7 DEF Plain
  <2> HIDE DEF n
  <2> QED BY <1>7, <2>1, <2>2 DEF EndsAsking
<1>9. /\ whole \in Seq(Pieces) /\ Len(whole) = m + (n + 3)
      /\ \A i \in 1 .. m + (n + 3) : whole[i] = IF i <= m THEN h[i] ELSE after[i - m]
  <2>1. /\ h \o after \in Seq(Pieces) /\ Len(h \o after) = Len(h) + Len(after)
        /\ \A i \in 1 .. Len(h) + Len(after) :
             (h \o after)[i] = IF i <= Len(h) THEN h[i] ELSE after[i - Len(h)]
    BY <1>6, ConcatProperties
  <2> QED BY <1>7, <2>1
<1>10. EndsAsking(whole, q)
  <2> DEFINE l == m + (n + 3)
  <2>1. /\ l >= 3 /\ l \in 1 .. l /\ ~(l <= m) /\ l - m = n + 3
        /\ l - 1 \in 1 .. l /\ ~(l - 1 <= m) /\ (l - 1) - m = n + 2
        /\ l - 2 \in 1 .. l /\ ~(l - 2 <= m) /\ (l - 2) - m = n + 1
    BY <1>3
  <2>2. ASSUME NEW i \in 1 .. l - 3 PROVE whole[i].of \notin Prompts
    <3>1. i \in 1 .. l /\ (i <= m => i \in 1 .. m) /\ (~(i <= m) => i - m \in 1 .. n)
      BY <1>3
    <3>2. whole[i] = IF i <= m THEN h[i] ELSE after[i - m]
      BY <1>9, <3>1
    <3> HIDE DEF n, m, l, whole
    <3>3. i <= m => h[i].of \notin Prompts
      BY <3>1 DEF Plain, m
    <3>4. ~(i <= m) => after[i - m].of \notin Prompts
      BY <1>7, <3>1 DEF Plain, n
    <3> QED BY <3>2, <3>3, <3>4
  <2>3. Len(whole) = l
    BY <1>9
  <2>4. /\ whole[l] = Blank /\ whole[l - 1] = [of |-> q, part |-> 2]
        /\ whole[l - 2] = [of |-> q, part |-> 1]
    <3> HIDE DEF n, m, whole
    <3>1. \A i \in 1 .. l : whole[i] = IF i <= m THEN h[i] ELSE after[i - m]
      BY <1>9
    <3> HIDE DEF l
    <3> QED BY <1>7, <2>1, <3>1
  <2> HIDE DEF n, m, l, whole
  <2> QED BY <2>1, <2>2, <2>3, <2>4 DEF EndsAsking
<1> QED BY <1>6, <1>8, <1>10 DEF after, v, t

\* A line of the child: it says one only while no prompt waits.
LEMMA StepSay ==
  ASSUME SessionInv, NEW line \in Lines, NEW s \in Sources, Say(line, s)
  PROVE  SessionInv'
<1> DEFINE w == pipe[s] \o Halves(line)
<1>1. /\ connector = "talking" /\ said < MaxSaid /\ said' = said + 1
      /\ pipe' = [pipe EXCEPT ![s] = w]
      /\ UNCHANGED <<platform, at, due, heard, prompts, reported, forced, stop, connector,
                     asked, helpers, stdin>>
  BY DEF Say, taskVars
<1>2. pipe[s] \in Seq(Pieces) /\ pipe \in [Sources -> Seq(Pieces)]
  BY SessionTypes
<1>3. w \in Seq(Pieces) /\ (Plain(pipe[s]) => Plain(w))
  BY <1>2, LineWritten
<1> HIDE DEF w
<1>4. pipe' \in [Sources -> Seq(Pieces)]
  BY <1>1, <1>2, <1>3
<1>5. said' \in 0 .. MaxSaid
  BY <1>1, SessionTypes, PromptAssumption
<1>6. AllPlain
  BY <1>1 DEF SessionInv, OutputAgrees, Unanswered
<1>7. AllPlain'
  BY <1>1, <1>2, <1>3, <1>6 DEF AllPlain
<1>8. OutputAgrees'
  BY <1>1, <1>7 DEF OutputAgrees, Unanswered
<1>9. AnswersFit' /\ TaskAgrees'
  BY <1>1 DEF SessionInv, AnswersFit, TaskAgrees
<1> QED BY <1>1, <1>4, <1>5, <1>8, <1>9, SessionTypes, SessionKept

\* A prompt of the child, behind output that holds none.
LEMMA StepAsk ==
  ASSUME SessionInv, NEW q \in Prompts, Ask(q)
  PROVE  SessionInv'
<1> DEFINE w == pipe["err"] \o Halves(q) \o <<Blank>>
<1>1. /\ connector = "talking" /\ said < MaxSaid /\ said' = said + 1
      /\ connector' = "asking" /\ asked' = q
      /\ pipe' = [pipe EXCEPT !["err"] = w]
      /\ UNCHANGED <<platform, at, due, heard, prompts, reported, forced, stop, helpers,
                     stdin>>
  BY DEF Ask, taskVars
<1>2. /\ heard \in [Sources -> Seq(Pieces)] /\ pipe \in [Sources -> Seq(Pieces)]
      /\ "err" \in Sources /\ "out" \in Sources
      /\ heard["err"] \in Seq(Pieces) /\ pipe["err"] \in Seq(Pieces)
  BY SessionTypes DEF Sources
<1>3. AllPlain
  BY <1>1 DEF SessionInv, OutputAgrees, Unanswered
<1>4. Plain(heard["err"]) /\ Plain(pipe["err"]) /\ Plain(heard["out"]) /\ Plain(pipe["out"])
  BY <1>2, <1>3 DEF AllPlain
<1>5. w \in Seq(Pieces) /\ EndsAsking(w, q) /\ EndsAsking(heard["err"] \o w, q)
  BY <1>2, <1>4, PromptWritten
<1> HIDE DEF w
<1>6. pipe' \in [Sources -> Seq(Pieces)] /\ pipe'["err"] = w /\ pipe'["out"] = pipe["out"]
  BY <1>1, <1>2, <1>5
<1>7. said' \in 0 .. MaxSaid
  BY <1>1, SessionTypes, PromptAssumption
<1>8. due = "none" /\ stdin = <<>>
  BY <1>1 DEF SessionInv, AnswersFit
<1>9. AnswersFit' /\ TaskAgrees'
  BY <1>1, <1>8 DEF SessionInv, AnswersFit, TaskAgrees
<1>10. Unanswered' /\ connector' # "gone"
  BY <1>1, <1>8 DEF Unanswered
<1>11. OutputAgrees'
  BY <1>1, <1>4, <1>5, <1>6, <1>10 DEF OutputAgrees
<1>12. asked' \in Prompts \union {"none"} /\ connector' \in {"starting", "talking", "asking", "gone"}
  BY <1>1
<1> QED BY <1>1, <1>6, <1>7, <1>9, <1>11, <1>12, SessionTypes, SessionKept

-----------------------------------------------------------------------------
(* The specification.                                                        *)

LEMMA SessionStarts == Init => SessionInv
<1> SUFFICES ASSUME Init PROVE SessionInv
  OBVIOUS
<1>1. PromptTypeOK
  <2>1. Range(reported) = {}
    <3>1. reported = <<>> /\ DOMAIN <<>> = {}
      BY DEF Init
    <3> QED BY <3>1 DEF Range
  <2>2. /\ {stop, forced, helpers} \subseteq BOOLEAN
        /\ prompts \in 0 .. MaxPrompts /\ said \in 0 .. MaxSaid
    <3>1. stop = FALSE /\ forced = FALSE /\ helpers = FALSE
      BY DEF Init
    <3>2. prompts = 0 /\ said = 0
      BY DEF Init
    <3>3. 0 \in 0 .. MaxPrompts /\ 0 \in 0 .. MaxSaid
      BY PromptAssumption
    <3>4. {stop, forced, helpers} \subseteq BOOLEAN
      BY <3>1
    <3> QED BY <3>2, <3>3, <3>4
  <2>3. Range(reported) \subseteq Events
    BY <2>1
  <2>4. /\ platform \in {"linux", "windows", "macos"} /\ at = "first" /\ due = "none"
        /\ asked = "none" /\ connector = "starting"
    BY DEF Init
  <2> QED BY <2>2, <2>3, <2>4 DEF PromptTypeOK
<1>2. AnswersFit
  BY DEF Init, AnswersFit
<1>3. ReportedOnce
  BY DEF Init, ReportedOnce, IsInjective
<1>4. TaskAgrees
  BY DEF Init, TaskAgrees
<1>5. \A s \in Sources : heard[s] = <<>> /\ pipe[s] = <<>>
  BY DEF Init
<1>6. heard \in [Sources -> Seq(Pieces)] /\ pipe \in [Sources -> Seq(Pieces)]
  BY EmptyHeard DEF Init
<1>7. AllPlain
  BY <1>5, EmptyHeard DEF AllPlain
<1>8. ~Unanswered
  BY DEF Init, Unanswered
<1>9. OutputAgrees
  BY <1>7, <1>8 DEF OutputAgrees
<1>10. reported \in Seq(Events) /\ stdin \in Seq(Prompts)
  BY DEF Init
<1> QED BY <1>1, <1>2, <1>3, <1>4, <1>6, <1>9, <1>10 DEF SessionInv

LEMMA SessionSteps == SessionInv /\ [Next]_vars => SessionInv'
<1> SUFFICES ASSUME SessionInv, [Next]_vars PROVE SessionInv'
  OBVIOUS
<1>1. CASE Task \/ NoticeStop
  BY <1>1, StepTask DEF Task
<1>2. ASSUME NEW s \in Sources, Receive(s) PROVE SessionInv'
  <2>1. CASE FeedBytes(s)
    BY <2>1, StepByte
  <2>2. ASSUME NEW n \in 1 .. Len(pipe[s]), FeedChunk(s, n) PROVE SessionInv'
    BY <2>2, StepChunk
  <2> QED BY <1>2, <2>1, <2>2 DEF Receive
<1>3. CASE ReadFirst \/ TakeAnswer \/ RunHelpers \/ HelpersEnd \/ Exit \/ Stop \/ Deadline
  BY <1>3, StepChild
<1>4. ASSUME NEW line \in Lines, NEW s \in Sources, Say(line, s) PROVE SessionInv'
  BY <1>4, StepSay
<1>5. ASSUME NEW q \in Prompts, Ask(q) PROVE SessionInv'
  BY <1>5, StepAsk
<1>6. CASE UNCHANGED vars
  <2>1. UNCHANGED <<platform, at, due, stop, heard, prompts, reported, forced, connector,
                    asked, helpers, said, pipe, stdin>>
    BY <1>6 DEF vars, childVars
  <2>2. AnswersFit' /\ TaskAgrees'
    BY <2>1 DEF SessionInv, AnswersFit, TaskAgrees
  <2>3. OutputAgrees'
    BY <2>1, OutputStays
  <2> QED BY <2>1, <2>2, <2>3, SessionTypes, SessionKept
<1> QED BY <1>1, <1>2, <1>3, <1>4, <1>5, <1>6 DEF Next

-----------------------------------------------------------------------------
(* The theorems.                                                             *)

\* In every session of any length, what was heard and what is in the pipes holds no prompt
\* but the one the child waits at.
THEOREM SessionInvariant == Spec => []SessionInv
<1> QED BY SessionStarts, SessionSteps, PTL DEF Spec

\* However the output of the child is cut, each prompt is answered once and only when the
\* child waits at it, and each event is reported once.
THEOREM AnswersAreSound == Spec => []AnswersSound
<1>1. SessionInv => AnswersSound
  BY DEF SessionInv, AnswersSound
<1> QED BY <1>1, SessionInvariant, PTL

\* When run_interactive_openconnect or run_start_child returns, its child is gone, and so
\* are the scripts of the child where the job or the group was ended.
THEOREM NoTreeIsLeft == Spec => []TreeIsGone
<1>1. SessionInv => TreeIsGone
  BY DEF SessionInv, TaskAgrees, TreeIsGone
<1> QED BY <1>1, SessionInvariant, PTL

=============================================================================
