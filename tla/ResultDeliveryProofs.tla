------------------------- MODULE ResultDeliveryProofs -------------------------
(* Theorems of ResultDelivery, for every value of its constants. *)
EXTENDS ResultDelivery, SequenceTheorems, FiniteSetTheorems, TLAPS

LEMMA Parameters ==
  /\ Step \in Nat /\ Step > 0 /\ Window \in Nat /\ Window > 0
  /\ MaxGap \in Nat /\ MaxGap > 0 /\ ShortlistSize \in Nat /\ ShortlistSize > 0
  /\ MaxCandidates \in Nat
  /\ \A s \in Scores : s \in Nat
  /\ \A a \in Looks : <<a, a>> \in Similar
BY SelectionAssumption

USE Parameters

-----------------------------------------------------------------------------
(* Sequences that grow *)

LEMMA Appended ==
  ASSUME NEW S, NEW s \in Seq(S), NEW e \in S
  PROVE  /\ Append(s, e) \in Seq(S)
         /\ Len(s) \in Nat /\ DOMAIN s = 1..Len(s)
         /\ Len(Append(s, e)) = Len(s) + 1 /\ DOMAIN Append(s, e) = 1..Len(s) + 1
         /\ \A i \in 1..Len(s) : Append(s, e)[i] = s[i]
         /\ Append(s, e)[Len(s) + 1] = e
<1>1. Len(s) \in Nat /\ DOMAIN s = 1..Len(s)
  BY LenProperties
<1>. QED BY <1>1

LEMMA One ==
  ASSUME NEW S, NEW e \in S
  PROVE  <<e>> \in Seq(S) /\ DOMAIN <<e>> = {1} /\ <<e>>[1] = e /\ <<e>> # <<>>
OBVIOUS

LEMMA Domain ==
  ASSUME NEW S, NEW s \in Seq(S)
  PROVE  /\ Len(s) \in Nat /\ DOMAIN s = 1..Len(s)
         /\ \A i \in DOMAIN s : s[i] \in S
         /\ s = <<>> <=> Len(s) = 0
<1>1. Len(s) \in Nat /\ DOMAIN s = 1..Len(s) /\ s \in [1..Len(s) -> S]
  BY LenProperties
<1>2. s # <<>> => Len(s) # 0
  BY EmptySeq
<1>. QED BY <1>1, <1>2

-----------------------------------------------------------------------------
(* The frames of a video *)

Frame == [time : Nat, look : Looks, score : Scores]
Choice == [best : Frame, top : Scores]

SelectionTypeOK ==
  /\ candidates \in Nat
  /\ window \in Int
  /\ shortlist \in Seq(Frame)
  /\ frames \in Seq(Frame)
  /\ bests \in Seq(Choice)

\* The frames saved come before those of the current window, which come before the next
\* candidate.
InOrderOfTime ==
  /\ \A i \in DOMAIN shortlist : shortlist[i].time <= candidates * Step
  /\ \A k \in DOMAIN frames : frames[k].time <= candidates * Step
  /\ \A i \in DOMAIN shortlist, k \in DOMAIN frames : frames[k].time <= shortlist[i].time

\* What a candidate is compared with is the last frame that was saved.
LastIsSaved == last = IF frames = <<>> THEN {} ELSE {frames[Len(frames)]}

\* A window has a first best candidate.
FirstExists ==
  shortlist # <<>> => \E i \in DOMAIN shortlist : \A k \in DOMAIN shortlist : ~Before(k, i)

SelectionInv ==
  SelectionTypeOK /\ InOrderOfTime /\ LastIsSaved /\ FirstExists /\ WindowsCovered

LEMMA SelectionStart == SelectionInit => SelectionInv
<1>. SUFFICES ASSUME SelectionInit PROVE SelectionInv
  OBVIOUS
<1>1. /\ <<>> \in Seq(Frame) /\ <<>> \in Seq(Choice)
      /\ DOMAIN <<>> = {} /\ Len(<<>>) = 0
  BY EmptySeq
<1>. QED
  BY <1>1
  DEF SelectionInit, NoWindow, SelectionInv, SelectionTypeOK, InOrderOfTime, LastIsSaved,
      FirstExists, WindowsCovered

\* The best score of a window belongs to a candidate that is ranked.
LEMMA TopIsRanked ==
  ASSUME SelectionInv, shortlist # <<>>
  PROVE  \E m \in Ranked : /\ TopScore = shortlist[m].score
                           /\ \A k \in DOMAIN shortlist : shortlist[k].score <= TopScore
<1>1. PICK m \in DOMAIN shortlist : \A k \in DOMAIN shortlist : ~Before(k, m)
  BY DEF SelectionInv, FirstExists
<1>2. \A k \in DOMAIN shortlist : shortlist[k] \in Frame
  BY Domain DEF SelectionInv, SelectionTypeOK
<1>3. \A k \in DOMAIN shortlist : shortlist[k].score \in Scores /\ shortlist[k].score \in Nat
  BY <1>2 DEF Frame
<1>4. \A k \in DOMAIN shortlist : shortlist[k].score <= shortlist[m].score
  BY <1>1, <1>3 DEF Before
<1>5. m \in Ranked
  <2>1. {k \in DOMAIN shortlist : Before(k, m)} = {}
    BY <1>1
  <2>2. Cardinality({k \in DOMAIN shortlist : Before(k, m)}) = 0
    BY <2>1, FS_EmptySet
  <2>. QED BY <1>1, <2>2 DEF Ranked
<1>6. TopScore = shortlist[m].score
  <2>. DEFINE P(s) == /\ \E i \in DOMAIN shortlist : shortlist[i].score = s
                      /\ \A i \in DOMAIN shortlist : shortlist[i].score <= s
  <2>1. P(shortlist[m].score) /\ shortlist[m].score \in Scores
    BY <1>3, <1>4
  <2>2. \A s \in Scores : P(s) => s = shortlist[m].score
    BY <1>3, <1>4
  <2>. QED BY <2>1, <2>2 DEF TopScore
<1>. QED BY <1>4, <1>5, <1>6

\* A window that has candidates has a winner: no motion makes the choice impossible.
LEMMA WindowHasWinner ==
  ASSUME SelectionInv, shortlist # <<>>
  PROVE  Winners # {}
<1>1. PICK m \in DOMAIN shortlist : \A k \in DOMAIN shortlist : ~Before(k, m)
  BY DEF SelectionInv, FirstExists
<1>2. \A k \in DOMAIN shortlist : k \in Nat /\ shortlist[k].score \in Nat
  <2>1. \A k \in DOMAIN shortlist : k \in Nat /\ shortlist[k] \in Frame
    BY Domain DEF SelectionInv, SelectionTypeOK
  <2>. QED BY <2>1 DEF Frame
<1>3. m \in Ranked /\ Ranked \subseteq DOMAIN shortlist
  <2>1. {k \in DOMAIN shortlist : Before(k, m)} = {}
    BY <1>1
  <2>2. Cardinality({k \in DOMAIN shortlist : Before(k, m)}) = 0
    BY <2>1, FS_EmptySet
  <2>. QED BY <2>2 DEF Ranked
<1>4. ASSUME NEW j \in Ranked \ {m}
      PROVE  Beats(m, j)
  <2>1. j \in DOMAIN shortlist /\ j # m
    BY <1>3
  <2>2. /\ shortlist[j].score <= shortlist[m].score
        /\ shortlist[j].score = shortlist[m].score => m < j
    BY <1>1, <1>2, <2>1 DEF Before
  <2>3. Least(j) = 26 * shortlist[j].score \/ Least(j) = 10 * shortlist[j].score
    BY DEF Least
  <2>. QED BY <1>2, <2>1, <2>2, <2>3 DEF Beats
<1>. QED BY <1>3, <1>4 DEF Winners

\* A winner is worth at least what motion can cost the best.
LEMMA WinnerIsGood ==
  ASSUME SelectionInv, NEW i \in Winners
  PROVE  /\ i \in DOMAIN shortlist /\ TopScore \in Scores
         /\ 26 * shortlist[i].score >= 10 * TopScore
<1>1. i \in Ranked /\ i \in DOMAIN shortlist
  BY DEF Winners, Ranked
<1>2. shortlist # <<>>
  BY <1>1
<1>3. PICK m \in Ranked : TopScore = shortlist[m].score
  BY <1>2, TopIsRanked
<1>4. \A k \in DOMAIN shortlist : shortlist[k].score \in Scores /\ shortlist[k].score \in Nat
  <2>1. \A k \in DOMAIN shortlist : shortlist[k] \in Frame
    BY Domain DEF SelectionInv, SelectionTypeOK
  <2>. QED BY <2>1 DEF Frame
<1>5. m \in DOMAIN shortlist
  BY DEF Ranked
<1>6. CASE m = i
  BY <1>1, <1>3, <1>4, <1>6
<1>7. CASE m # i
  <2>1. 26 * shortlist[i].score >= Least(m)
    BY <1>1, <1>4, <1>5, <1>7 DEF Winners, Beats, Least
  <2>2. Least(m) >= 10 * shortlist[m].score /\ Least(m) \in Nat
    BY <1>4, <1>5 DEF Least
  <2>. QED BY <1>1, <1>3, <1>4, <1>5, <2>1, <2>2
<1>. QED BY <1>1, <1>6, <1>7, <1>3, <1>4, <1>5

\* The end of a window keeps what is known of the frames.
LEMMA WindowEnds ==
  ASSUME SelectionInv, FinishWindow
  PROVE  /\ frames' \in Seq(Frame) /\ bests' \in Seq(Choice)
         /\ \A k \in DOMAIN frames' : frames'[k].time <= candidates * Step
         /\ LastIsSaved' /\ WindowsCovered'
<1>1. PICK i \in Winners : /\ SaveCandidate(shortlist[i])
                           /\ bests' = Append(bests, [best |-> shortlist[i], top |-> TopScore])
  BY DEF FinishWindow
<1>. DEFINE c == shortlist[i]
            entry == [best |-> c, top |-> TopScore]
<1>2. i \in DOMAIN shortlist /\ TopScore \in Scores /\ 26 * c.score >= 10 * TopScore
  BY WinnerIsGood
<1>3. c \in Frame /\ c.time \in Nat /\ c.look \in Looks
  <2>1. c \in Frame
    BY <1>2, Domain DEF SelectionInv, SelectionTypeOK
  <2>. QED BY <2>1 DEF Frame
<1>4. entry \in Choice
  BY <1>2, <1>3 DEF Choice
<1>5. /\ frames \in Seq(Frame) /\ bests \in Seq(Choice)
      /\ Len(frames) \in Nat /\ DOMAIN frames = 1..Len(frames)
      /\ Len(bests) \in Nat /\ DOMAIN bests = 1..Len(bests)
      /\ frames = <<>> <=> Len(frames) = 0
  BY Domain DEF SelectionInv, SelectionTypeOK
<1>6. /\ bests' \in Seq(Choice)
      /\ DOMAIN bests' = 1..Len(bests) + 1
      /\ \A w \in 1..Len(bests) : bests'[w] = bests[w]
      /\ bests'[Len(bests) + 1] = entry
  BY <1>1, <1>4, <1>5, Appended
<1>7. \A k \in DOMAIN frames : frames[k] \in Frame /\ frames[k].time \in Nat
                               /\ frames[k].time <= c.time /\ frames[k].time <= candidates * Step
  <2>1. \A k \in DOMAIN frames : frames[k] \in Frame
    BY <1>5, Domain
  <2>. QED BY <1>2, <2>1 DEF SelectionInv, InOrderOfTime, Frame
<1>8. c.time <= candidates * Step
  BY <1>2 DEF SelectionInv, InOrderOfTime
<1>9. \A w \in DOMAIN bests :
        /\ \E k \in DOMAIN frames :
             /\ 0 <= bests[w].best.time - frames[k].time
             /\ bests[w].best.time - frames[k].time < MaxGap
             /\ <<frames[k].look, bests[w].best.look>> \in Similar
        /\ 26 * bests[w].best.score >= 10 * bests[w].top
  BY DEF SelectionInv, WindowsCovered
<1>10. \A k \in 1..Len(frames) - 1 :
         \/ frames[k + 1].time - frames[k].time >= MaxGap
         \/ <<frames[k].look, frames[k + 1].look>> \notin Similar
  BY DEF SelectionInv, WindowsCovered
<1>11. CASE NearDuplicate(c)
  <2>1. UNCHANGED <<frames, last>>
    BY <1>1, <1>11 DEF SaveCandidate
  <2>2. PICK l \in last : c.time - l.time < MaxGap /\ <<l.look, c.look>> \in Similar
    BY <1>11 DEF NearDuplicate
  <2>3. frames # <<>> /\ l = frames[Len(frames)]
    BY DEF SelectionInv, LastIsSaved
  <2>4. Len(frames) \in DOMAIN frames
    BY <1>5, <2>3
  <2>5. /\ 0 <= c.time - frames[Len(frames)].time
        /\ c.time - frames[Len(frames)].time < MaxGap
        /\ <<frames[Len(frames)].look, c.look>> \in Similar
    BY <1>3, <1>7, <2>2, <2>3, <2>4
  <2>6. WindowsCovered'
    <3>1. ASSUME NEW w \in DOMAIN bests'
          PROVE  /\ \E k \in DOMAIN frames :
                      /\ 0 <= bests'[w].best.time - frames[k].time
                      /\ bests'[w].best.time - frames[k].time < MaxGap
                      /\ <<frames[k].look, bests'[w].best.look>> \in Similar
                 /\ 26 * bests'[w].best.score >= 10 * bests'[w].top
      <4>1. CASE w \in DOMAIN bests
        BY <1>5, <1>6, <1>9, <4>1
      <4>2. CASE w = Len(bests) + 1
        <5>1. bests'[w].best = c /\ bests'[w].top = TopScore
          BY <1>6, <4>2
        <5>. QED BY <1>2, <2>4, <2>5, <5>1
      <4>3. w \in 1..Len(bests) \/ w = Len(bests) + 1
        BY <1>5, <1>6
      <4>. QED BY <1>5, <4>1, <4>2, <4>3
    <3>. QED BY <1>10, <2>1, <3>1 DEF WindowsCovered
  <2>. QED BY <1>5, <1>6, <1>7, <2>1, <2>6 DEF SelectionInv, LastIsSaved
<1>12. CASE ~NearDuplicate(c)
  <2>1. frames' = Append(frames, c) /\ last' = {c}
    BY <1>1, <1>12 DEF SaveCandidate
  <2>2. /\ frames' \in Seq(Frame) /\ Len(frames') = Len(frames) + 1
        /\ DOMAIN frames' = 1..Len(frames) + 1
        /\ \A k \in 1..Len(frames) : frames'[k] = frames[k]
        /\ frames'[Len(frames) + 1] = c
    BY <1>3, <1>5, <2>1, Appended
  <2>3. LastIsSaved'
    <3>1. frames' # <<>>
      BY <1>5, <2>2, Domain
    <3>. QED BY <2>1, <2>2, <3>1 DEF LastIsSaved
  <2>4. \A k \in DOMAIN frames' : frames'[k].time <= candidates * Step
    BY <1>5, <1>7, <1>8, <2>2
  <2>5. ASSUME NEW w \in DOMAIN bests'
        PROVE  /\ \E k \in DOMAIN frames' :
                    /\ 0 <= bests'[w].best.time - frames'[k].time
                    /\ bests'[w].best.time - frames'[k].time < MaxGap
                    /\ <<frames'[k].look, bests'[w].best.look>> \in Similar
               /\ 26 * bests'[w].best.score >= 10 * bests'[w].top
    <3>1. CASE w \in DOMAIN bests
      <4>1. PICK k \in DOMAIN frames :
              /\ 0 <= bests[w].best.time - frames[k].time
              /\ bests[w].best.time - frames[k].time < MaxGap
              /\ <<frames[k].look, bests[w].best.look>> \in Similar
        BY <1>9, <3>1
      <4>2. k \in DOMAIN frames' /\ frames'[k] = frames[k] /\ bests'[w] = bests[w]
        BY <1>5, <1>6, <2>2, <3>1
      <4>. QED BY <1>9, <3>1, <4>1, <4>2
    <3>2. CASE w = Len(bests) + 1
      <4>1. bests'[w].best = c /\ bests'[w].top = TopScore
        BY <1>6, <3>2
      <4>2. Len(frames) + 1 \in DOMAIN frames' /\ frames'[Len(frames) + 1] = c
        BY <1>5, <2>2
      <4>3. c.time - c.time = 0 /\ 0 < MaxGap /\ <<c.look, c.look>> \in Similar
        BY <1>3
      <4>. QED BY <1>2, <4>1, <4>2, <4>3
    <3>3. w \in 1..Len(bests) \/ w = Len(bests) + 1
      BY <1>5, <1>6
    <3>. QED BY <1>5, <3>1, <3>2, <3>3
  <2>6. ASSUME NEW k \in 1..Len(frames') - 1
        PROVE  \/ frames'[k + 1].time - frames'[k].time >= MaxGap
               \/ <<frames'[k].look, frames'[k + 1].look>> \notin Similar
    <3>1. CASE k \in 1..Len(frames) - 1
      <4>1. k \in 1..Len(frames) /\ k + 1 \in 1..Len(frames)
        BY <1>5, <3>1
      <4>2. frames'[k] = frames[k] /\ frames'[k + 1] = frames[k + 1]
        BY <2>2, <4>1
      <4>. QED BY <1>10, <3>1, <4>2
    <3>2. CASE k = Len(frames)
      <4>1. frames # <<>> /\ k \in DOMAIN frames
        BY <1>5, <2>2, <3>2
      <4>2. frames[k] \in last
        BY <3>2, <4>1 DEF SelectionInv, LastIsSaved
      <4>3. c.time - frames[k].time >= MaxGap \/ <<frames[k].look, c.look>> \notin Similar
        <5>1. ~(c.time - frames[k].time < MaxGap /\ <<frames[k].look, c.look>> \in Similar)
          BY <1>12, <4>2 DEF NearDuplicate
        <5>2. c.time - frames[k].time \in Int
          BY <1>3, <1>7, <4>1
        <5>. QED BY <5>1, <5>2
      <4>. QED BY <1>5, <2>2, <3>2, <4>1, <4>3
    <3>3. k \in 1..Len(frames) - 1 \/ k = Len(frames)
      <4>1. Len(frames) \in Nat /\ Len(frames') = Len(frames) + 1
        BY <1>5, <2>2
      <4>. QED BY <4>1
    <3>. QED BY <3>1, <3>2, <3>3
  <2>. QED BY <1>6, <2>2, <2>3, <2>4, <2>5, <2>6 DEF WindowsCovered
<1>. QED BY <1>11, <1>12

LEMMA StillFirst ==
  ASSUME SelectionInv, NEW frame \in Frame, shortlist' = Append(shortlist, frame)
  PROVE  FirstExists'
<1>1. /\ shortlist \in Seq(Frame) /\ Len(shortlist) \in Nat /\ DOMAIN shortlist = 1..Len(shortlist)
      /\ shortlist = <<>> <=> Len(shortlist) = 0
  BY Domain DEF SelectionInv, SelectionTypeOK
<1>2. /\ DOMAIN shortlist' = 1..Len(shortlist) + 1
      /\ \A i \in 1..Len(shortlist) : shortlist'[i] = shortlist[i]
      /\ shortlist'[Len(shortlist) + 1] = frame
  BY <1>1, Appended
<1>3. \A i \in DOMAIN shortlist : shortlist[i].score \in Nat
  <2>1. \A i \in DOMAIN shortlist : shortlist[i] \in Frame
    BY <1>1, Domain
  <2>. QED BY <2>1 DEF Frame
<1>4. frame.score \in Nat
  BY DEF Frame
<1>. DEFINE n == Len(shortlist) + 1
            Later(i, j) == \/ shortlist'[i].score > shortlist'[j].score
                           \/ shortlist'[i].score = shortlist'[j].score /\ i < j
<1>5. SUFFICES \E m \in 1..n : \A k \in 1..n : ~Later(k, m)
  BY <1>2 DEF FirstExists, Before
<1>6. CASE \A i \in DOMAIN shortlist : shortlist[i].score < frame.score
  <2>1. n \in 1..n
    BY <1>1
  <2>2. ASSUME NEW k \in 1..n PROVE ~Later(k, n)
    <3>1. CASE k = n
      BY <1>1, <1>2, <1>4, <3>1
    <3>2. CASE k \in 1..Len(shortlist)
      BY <1>1, <1>2, <1>3, <1>4, <1>6, <3>2
    <3>. QED BY <1>1, <3>1, <3>2
  <2>. QED BY <2>1, <2>2
<1>7. CASE \E i \in DOMAIN shortlist : ~(shortlist[i].score < frame.score)
  <2>1. shortlist # <<>>
    BY <1>1, <1>7
  <2>2. PICK m \in DOMAIN shortlist : \A k \in DOMAIN shortlist : ~Before(k, m)
    BY <2>1 DEF SelectionInv, FirstExists
  <2>3. PICK i \in DOMAIN shortlist : ~(shortlist[i].score < frame.score)
    BY <1>7
  <2>4. shortlist[i].score <= shortlist[m].score
    BY <1>3, <2>2, <2>3 DEF Before
  <2>5. ~(shortlist[m].score < frame.score)
    BY <1>3, <1>4, <2>2, <2>3, <2>4
  <2>6. m \in 1..n /\ m \in 1..Len(shortlist)
    BY <1>1
  <2>7. ASSUME NEW k \in 1..n PROVE ~Later(k, m)
    <3>1. CASE k = n
      BY <1>1, <1>2, <1>3, <1>4, <2>5, <2>6, <3>1
    <3>2. CASE k \in 1..Len(shortlist)
      BY <1>1, <1>2, <1>3, <2>2, <2>6, <3>2 DEF Before
    <3>. QED BY <1>1, <3>1, <3>2
  <2>. QED BY <2>6, <2>7
<1>. QED BY <1>6, <1>7

LEMMA Alone ==
  ASSUME NEW frame \in Frame, shortlist' = <<frame>>
  PROVE  FirstExists'
<1>1. DOMAIN shortlist' = {1} /\ shortlist'[1].score \in Nat
  BY DEF Frame
<1>. QED BY <1>1 DEF FirstExists, Before

\* The times of candidates grow with their number.
LEMMA TimesGrow ==
  ASSUME NEW c \in Nat
  PROVE  c * Step \in Nat /\ (c + 1) * Step \in Nat /\ c * Step <= (c + 1) * Step
<1>1. c * Step \in Nat /\ (c + 1) * Step = c * Step + Step
  OBVIOUS
<1>. QED BY <1>1

\* Everything that is known has the time of an earlier candidate.
LEMMA Earlier ==
  ASSUME SelectionInv
  PROVE  /\ candidates \in Nat /\ candidates * Step \in Nat
         /\ \A i \in DOMAIN shortlist : /\ shortlist[i] \in Frame /\ shortlist[i].time \in Nat
                                        /\ shortlist[i].time <= candidates * Step
         /\ \A k \in DOMAIN frames : /\ frames[k] \in Frame /\ frames[k].time \in Nat
                                     /\ frames[k].time <= candidates * Step
<1>1. \A i \in DOMAIN shortlist : shortlist[i] \in Frame
  BY Domain DEF SelectionInv, SelectionTypeOK
<1>2. \A k \in DOMAIN frames : frames[k] \in Frame
  BY Domain DEF SelectionInv, SelectionTypeOK
<1>3. candidates \in Nat /\ candidates * Step \in Nat
  BY TimesGrow DEF SelectionInv, SelectionTypeOK
<1>. QED BY <1>1, <1>2, <1>3 DEF SelectionInv, InOrderOfTime, Frame

LEMMA ExtractStep ==
  ASSUME SelectionInv, Extract
  PROVE  SelectionInv'
<1>1. candidates \in Nat /\ candidates' = candidates + 1
  BY Earlier DEF Extract
<1>2. PICK frame \in Extracted :
        LET index == calculate_window_index(frame.time) IN
        /\ window' = index
        /\ IF window \in {NoWindow, index}
           THEN shortlist' = Append(shortlist, frame) /\ UNCHANGED <<last, frames, bests>>
           ELSE shortlist' = <<frame>> /\ FinishWindow
  BY DEF Extract
<1>. DEFINE now == candidates * Step
            next == (candidates + 1) * Step
<1>3. now \in Nat /\ next \in Nat /\ now <= next
  BY <1>1, TimesGrow
<1>4. frame \in Frame /\ frame.time = now
  BY <1>2, <1>3 DEF Extracted, Frame
<1>5. window' \in Int
  <2>1. window' = now \div Window
    BY <1>2, <1>4 DEF calculate_window_index
  <2>. QED BY <1>3, <2>1
<1>. HIDE DEF now, next
<1>6. candidates' * Step = next
  BY <1>1 DEF next
<1>7. /\ \A i \in DOMAIN shortlist : shortlist[i].time \in Nat /\ shortlist[i].time <= now
      /\ \A k \in DOMAIN frames : frames[k].time \in Nat /\ frames[k].time <= now
  BY Earlier DEF now
<1>8. CASE window \in {NoWindow, calculate_window_index(frame.time)}
  <2>1. shortlist' = Append(shortlist, frame) /\ UNCHANGED <<last, frames, bests>>
    BY <1>2, <1>8
  <2>2. /\ shortlist \in Seq(Frame) /\ Len(shortlist) \in Nat /\ DOMAIN shortlist = 1..Len(shortlist)
    BY Domain DEF SelectionInv, SelectionTypeOK
  <2>3. /\ shortlist' \in Seq(Frame) /\ DOMAIN shortlist' = 1..Len(shortlist) + 1
        /\ \A i \in 1..Len(shortlist) : shortlist'[i] = shortlist[i]
        /\ shortlist'[Len(shortlist) + 1] = frame
    BY <1>4, <2>1, <2>2, Appended
  <2>4. SelectionTypeOK'
    BY <1>1, <1>5, <2>1, <2>3 DEF SelectionInv, SelectionTypeOK
  <2>5. ASSUME NEW i \in DOMAIN shortlist'
        PROVE  /\ shortlist'[i].time <= next
               /\ \A k \in DOMAIN frames : frames[k].time <= shortlist'[i].time
    <3>1. CASE i \in DOMAIN shortlist
      <4>1. shortlist'[i] = shortlist[i] /\ shortlist[i].time \in Nat /\ shortlist[i].time <= now
        BY <1>7, <2>2, <2>3, <3>1
      <4>2. \A k \in DOMAIN frames : frames[k].time <= shortlist[i].time
        BY <3>1 DEF SelectionInv, InOrderOfTime
      <4>. QED BY <1>3, <4>1, <4>2
    <3>2. CASE i = Len(shortlist) + 1
      BY <1>3, <1>4, <1>7, <2>3, <3>2
    <3>3. i \in 1..Len(shortlist) \/ i = Len(shortlist) + 1
      BY <2>2, <2>3
    <3>. QED BY <2>2, <3>1, <3>2, <3>3
  <2>6. \A k \in DOMAIN frames : frames[k].time <= next
    BY <1>3, <1>7
  <2>7. InOrderOfTime'
    BY <1>6, <2>1, <2>5, <2>6 DEF InOrderOfTime
  <2>8. FirstExists'
    BY <1>4, <2>1, StillFirst
  <2>9. LastIsSaved' /\ WindowsCovered'
    BY <2>1 DEF SelectionInv, LastIsSaved, WindowsCovered
  <2>. QED BY <2>4, <2>7, <2>8, <2>9 DEF SelectionInv
<1>9. CASE window \notin {NoWindow, calculate_window_index(frame.time)}
  <2>1. shortlist' = <<frame>> /\ FinishWindow
    BY <1>2, <1>9
  <2>2. /\ frames' \in Seq(Frame) /\ bests' \in Seq(Choice) /\ LastIsSaved' /\ WindowsCovered'
        /\ \A k \in DOMAIN frames' : frames'[k].time <= now
    BY <2>1, WindowEnds DEF now
  <2>3. shortlist' \in Seq(Frame) /\ DOMAIN shortlist' = {1} /\ shortlist'[1] = frame
    BY <1>4, <2>1, One
  <2>4. SelectionTypeOK'
    BY <1>1, <1>5, <2>2, <2>3 DEF SelectionTypeOK
  <2>5. \A k \in DOMAIN frames' : frames'[k].time \in Nat
    <3>1. \A k \in DOMAIN frames' : frames'[k] \in Frame
      BY <2>2, Domain
    <3>. QED BY <3>1 DEF Frame
  <2>6. InOrderOfTime'
    <3>1. \A i \in DOMAIN shortlist' : shortlist'[i].time = now
      BY <1>4, <2>3
    <3>. QED BY <1>3, <1>6, <2>2, <2>5, <3>1 DEF InOrderOfTime
  <2>7. FirstExists'
    BY <1>4, <2>1, Alone
  <2>. QED BY <2>2, <2>4, <2>6, <2>7 DEF SelectionInv
<1>. QED BY <1>8, <1>9

LEMMA EndOfVideoStep ==
  ASSUME SelectionInv, EndOfVideo
  PROVE  SelectionInv'
<1>1. window' = NoWindow /\ shortlist' = <<>> /\ UNCHANGED candidates
  BY DEF EndOfVideo
<1>2. shortlist' \in Seq(Frame) /\ DOMAIN shortlist' = {} /\ NoWindow \in Int
  BY <1>1, EmptySeq DEF NoWindow
<1>3. /\ frames' \in Seq(Frame) /\ bests' \in Seq(Choice) /\ LastIsSaved' /\ WindowsCovered'
      /\ \A k \in DOMAIN frames' : frames'[k].time <= candidates * Step
  <2>1. CASE shortlist = <<>>
    <3>1. UNCHANGED <<last, frames, bests>>
      BY <2>1 DEF EndOfVideo
    <3>. QED
      BY <3>1 DEF SelectionInv, SelectionTypeOK, InOrderOfTime, LastIsSaved, WindowsCovered
  <2>2. CASE shortlist # <<>>
    BY <2>2, WindowEnds DEF EndOfVideo
  <2>. QED BY <2>1, <2>2
<1>4. SelectionTypeOK'
  BY <1>1, <1>2, <1>3 DEF SelectionInv, SelectionTypeOK
<1>5. InOrderOfTime' /\ FirstExists'
  BY <1>1, <1>2, <1>3 DEF InOrderOfTime, FirstExists
<1>. QED BY <1>3, <1>4, <1>5 DEF SelectionInv

\* What holds of the candidates, the shortlist and the saved frames in every state.
LEMMA SpecSelectionInv == Spec => []SelectionInv
<1>1. Init => SelectionInv
  BY SelectionStart DEF Init
<1>2. SelectionInv /\ [Next]_deliveryVars => SelectionInv'
  <2>. SUFFICES ASSUME SelectionInv, [Next]_deliveryVars PROVE SelectionInv'
    OBVIOUS
  <2>1. CASE Extract
    BY <2>1, ExtractStep
  <2>2. CASE EndOfVideo
    BY <2>2, EndOfVideoStep
  <2>3. CASE UNCHANGED selectionVars
    BY <2>3 DEF selectionVars, SelectionInv, SelectionTypeOK, InOrderOfTime, LastIsSaved,
                FirstExists, Before, WindowsCovered
  <2>. QED
    BY <2>1, <2>2, <2>3
    DEF Next, ProcessVideo, PublishVideo, ProcessImage, PublishDataset, SourceRefused, JobFails,
        Fails, DrawBox, SaveAgain, PredictBox, deliveryVars
<1>. QED BY <1>1, <1>2, PTL DEF Spec

\* Every window of a video is represented by a saved frame that looks like its choice,
\* and no two saved frames in a row are near duplicates (DeterministicFrameSelector).
THEOREM SpecWindowsCovered == Spec => []WindowsCovered
<1>1. SelectionInv => WindowsCovered
  BY DEF SelectionInv
<1>. QED BY <1>1, SpecSelectionInv, PTL

\* The end of a window always has a frame to choose, whatever the motion of its
\* candidates: the selector never gets stuck on a shortlist.
THEOREM SpecWindowHasChoice == Spec => [](shortlist # <<>> => Winners # {})
<1>1. SelectionInv => (shortlist # <<>> => Winners # {})
  BY WindowHasWinner
<1>. QED BY <1>1, SpecSelectionInv, PTL

-----------------------------------------------------------------------------
(* The images of a data set *)

Categories == {"rejected", "unusable", "normal", "challenging"}
Entry == [content : Contents, category : Categories, duplicate : BOOLEAN, keys : BOOLEAN]

Decoded == {i \in DOMAIN entries : entries[i].category # "rejected"}

\* A content that could be decoded has one entry that is no duplicate.
OneOfEach ==
  /\ \A i, j \in Decoded :
       /\ entries[i].content = entries[j].content
       /\ ~entries[i].duplicate /\ ~entries[j].duplicate
       => i = j
  /\ \A i \in Decoded : \E j \in Decoded :
       entries[j].content = entries[i].content /\ ~entries[j].duplicate

DatasetInv ==
  /\ entries \in Seq(Entry)
  /\ \A i \in DOMAIN entries : entries[i].category = Category(entries[i].content)
  /\ OneOfEach

LEMMA CategoryType == \A content : Category(content) \in Categories
BY DEF Category, Categories

LEMMA EntryFields ==
  ASSUME DatasetInv
  PROVE  /\ Len(entries) \in Nat /\ DOMAIN entries = 1..Len(entries)
         /\ \A i \in DOMAIN entries :
              /\ entries[i] \in Entry
              /\ entries[i].content \in Contents /\ entries[i].category \in Categories
              /\ entries[i].duplicate \in BOOLEAN /\ entries[i].keys \in BOOLEAN
              /\ entries[i].category = Category(entries[i].content)
<1>1. /\ Len(entries) \in Nat /\ DOMAIN entries = 1..Len(entries)
      /\ \A i \in DOMAIN entries : entries[i] \in Entry
  BY Domain DEF DatasetInv
<1>. QED BY <1>1 DEF DatasetInv, Entry

LEMMA JudgeStep ==
  ASSUME DatasetInv, Judge
  PROVE  DatasetInv'
<1>1. PICK content \in Contents :
        entries' = Append(entries, [content |-> content, category |-> Category(content),
                                    duplicate |-> content \in Seen, keys |-> FALSE])
  BY DEF Judge
<1>. DEFINE entry == [content |-> content, category |-> Category(content),
                      duplicate |-> content \in Seen, keys |-> FALSE]
            n == Len(entries) + 1
<1>2. entry \in Entry
  BY CategoryType DEF Entry
<1>3. /\ entries \in Seq(Entry) /\ Len(entries) \in Nat /\ DOMAIN entries = 1..Len(entries)
  BY EntryFields DEF DatasetInv
<1>4. /\ entries' \in Seq(Entry) /\ DOMAIN entries' = 1..n
      /\ \A i \in 1..Len(entries) : entries'[i] = entries[i]
      /\ entries'[n] = entry
  BY <1>1, <1>2, <1>3, Appended
<1>5. \A i \in DOMAIN entries' : i \in DOMAIN entries \/ i = n
  BY <1>3, <1>4
<1>6. /\ \A i \in DOMAIN entries : i \in DOMAIN entries' /\ entries'[i] = entries[i]
      /\ n \in DOMAIN entries' /\ n \notin DOMAIN entries
  BY <1>3, <1>4
<1>7. /\ entries'[n].content = content /\ entries'[n].category = Category(content)
      /\ entries'[n].duplicate <=> content \in Seen
  <2>1. /\ entries'[n].content = content /\ entries'[n].category = Category(content)
        /\ entries'[n].duplicate = (content \in Seen)
    BY <1>4
  <2>. QED BY <2>1
<1>. HIDE DEF n, entry
<1>8. \A i \in Decoded : entries[i].content \in Seen
  BY DEF Decoded, Seen
<1>9. \A i \in Decoded' : i \in Decoded \/ i = n
  BY <1>5, <1>6 DEF Decoded
<1>10. \A i \in Decoded : i \in Decoded' /\ entries'[i] = entries[i] /\ i # n
  BY <1>6 DEF Decoded
<1>11. \A i \in DOMAIN entries' : entries'[i].category = Category(entries'[i].content)
  BY <1>5, <1>6, <1>7 DEF DatasetInv
<1>12. ASSUME NEW i \in Decoded', NEW j \in Decoded',
              entries'[i].content = entries'[j].content,
              ~entries'[i].duplicate, ~entries'[j].duplicate
       PROVE  i = j
  BY <1>7, <1>8, <1>9, <1>10, <1>12 DEF DatasetInv, OneOfEach
<1>13. ASSUME NEW i \in Decoded'
       PROVE  \E j \in Decoded' :
                entries'[j].content = entries'[i].content /\ ~entries'[j].duplicate
  <2>1. CASE i \in Decoded
    BY <1>10, <2>1 DEF DatasetInv, OneOfEach
  <2>2. CASE i = n /\ content \notin Seen
    BY <1>7, <2>2
  <2>3. CASE i = n /\ content \in Seen
    <3>1. PICK k \in Decoded : entries[k].content = content
      BY <2>3 DEF Seen, Decoded
    <3>2. PICK j \in Decoded : entries[j].content = entries[k].content /\ ~entries[j].duplicate
      BY DEF DatasetInv, OneOfEach
    <3>. QED BY <1>7, <1>10, <2>3, <3>1, <3>2
  <2>. QED BY <1>9, <2>1, <2>2, <2>3
<1>. QED BY <1>4, <1>11, <1>12, <1>13 DEF DatasetInv, OneOfEach

LEMMA WithKeys ==
  ASSUME NEW e \in Entry, NEW k \in BOOLEAN
  PROVE  /\ [e EXCEPT !.keys = k] \in Entry
         /\ [e EXCEPT !.keys = k].content = e.content
         /\ [e EXCEPT !.keys = k].category = e.category
         /\ [e EXCEPT !.keys = k].duplicate = e.duplicate
         /\ [e EXCEPT !.keys = k].keys = k
BY DEF Entry

LEMMA UploadStep ==
  ASSUME DatasetInv, entries' = Uploaded
  PROVE  /\ DatasetInv'
         /\ \A i \in DOMAIN entries' : entries'[i].keys <=> i \in Usable'
<1>1. /\ Len(entries) \in Nat /\ DOMAIN entries = 1..Len(entries)
      /\ \A i \in DOMAIN entries : entries[i] \in Entry
  BY EntryFields
<1>2. DOMAIN entries' = DOMAIN entries
  BY DEF Uploaded
<1>3. \A i \in DOMAIN entries : entries'[i] = [entries[i] EXCEPT !.keys = i \in Usable]
  BY DEF Uploaded
<1>4. \A i \in DOMAIN entries :
        /\ entries'[i] \in Entry
        /\ entries'[i].content = entries[i].content /\ entries'[i].category = entries[i].category
        /\ entries'[i].duplicate = entries[i].duplicate /\ (entries'[i].keys <=> i \in Usable)
  <2>. SUFFICES ASSUME NEW i \in DOMAIN entries
                PROVE  /\ entries'[i] \in Entry
                       /\ entries'[i].content = entries[i].content
                       /\ entries'[i].category = entries[i].category
                       /\ entries'[i].duplicate = entries[i].duplicate
                       /\ entries'[i].keys <=> i \in Usable
    OBVIOUS
  <2>1. entries'[i] = [entries[i] EXCEPT !.keys = i \in Usable] /\ entries[i] \in Entry
    BY <1>1, <1>3
  <2>. DEFINE k == i \in Usable
  <2>2. k \in BOOLEAN /\ (k <=> i \in Usable)
    OBVIOUS
  <2>3. entries'[i] = [entries[i] EXCEPT !.keys = k]
    BY <2>1
  <2>. HIDE DEF k
  <2>4. entries'[i].keys = k
    BY <2>1, <2>2, <2>3, WithKeys
  <2>5. /\ entries'[i] \in Entry
        /\ entries'[i].content = entries[i].content /\ entries'[i].category = entries[i].category
        /\ entries'[i].duplicate = entries[i].duplicate
    BY <2>1, <2>2, <2>3, WithKeys
  <2>. QED BY <2>2, <2>4, <2>5
<1>5. entries' \in Seq(Entry)
  <2>1. entries' = [i \in 1..Len(entries) |-> entries'[i]]
    BY <1>1, <1>2, <1>3 DEF Uploaded
  <2>2. entries' \in [1..Len(entries) -> Entry]
    BY <1>1, <1>4, <2>1
  <2>. QED BY <1>1, <2>2, SeqDef
<1>6. Decoded' = Decoded /\ Usable' = Usable
  BY <1>2, <1>4 DEF Decoded, Usable
<1>7. Decoded \subseteq DOMAIN entries
  BY DEF Decoded
<1>8. OneOfEach'
  BY <1>4, <1>6, <1>7 DEF DatasetInv, OneOfEach
<1>. QED BY <1>2, <1>4, <1>5, <1>6, <1>8 DEF DatasetInv

-----------------------------------------------------------------------------
(* What the API serves *)

DeliveryInv ==
  /\ kind \in {"video", "images"} /\ phase \in {"running", "succeeded", "failed"}
  /\ kind = "video" => entries = <<>>
  /\ kind = "images" => frames = <<>> /\ shortlist = <<>>
  /\ kind = "images" /\ phase = "succeeded" =>
       \A i \in DOMAIN entries : entries[i].keys <=> i \in Usable
  /\ DatasetInv

LEMMA DeliveryStart == Init => DeliveryInv
<1>. SUFFICES ASSUME Init PROVE DeliveryInv
  OBVIOUS
<1>1. entries = <<>> /\ DOMAIN entries = {} /\ entries \in Seq(Entry)
  BY EmptySeq DEF Init, DatasetInit
<1>. QED
  BY <1>1 DEF Init, SelectionInit, DatasetInit, DeliveryInv, DatasetInv, OneOfEach, Decoded

LEMMA DeliveryStep ==
  ASSUME DeliveryInv, [Next]_deliveryVars
  PROVE  DeliveryInv'
<1>1. CASE UNCHANGED <<entries, frames, shortlist, kind>> /\ phase' \in {phase, "failed"}
  BY <1>1 DEF DeliveryInv, DatasetInv, OneOfEach, Decoded, Usable
<1>2. CASE ProcessVideo \/ PublishVideo
  BY <1>2 DEF ProcessVideo, PublishVideo, DeliveryInv, DatasetInv, OneOfEach, Decoded, Usable
<1>3. CASE ProcessImage
  BY <1>3, JudgeStep DEF ProcessImage, DeliveryInv, selectionVars
<1>4. CASE PublishDataset
  BY <1>4, UploadStep DEF PublishDataset, DeliveryInv, selectionVars
<1>. QED
  BY <1>1, <1>2, <1>3, <1>4
  DEF Next, SourceRefused, JobFails, Fails, DrawBox, SaveAgain, PredictBox, deliveryVars,
      selectionVars

Produced == IF kind = "video" THEN DOMAIN frames ELSE Usable
Refused == Of("rejected") # {} \/ Len(frames) > MaxFrames

\* The manifests that are refused, and what there is of the others.
LEMMA VideoIsValid ==
  ASSUME DeliveryInv, frames \in Seq(Frame), kind = "video"
  PROVE  /\ ManifestValid <=> ~Refused
         /\ Of("unusable") = {}
         /\ Listed = Produced /\ WithObject = Produced /\ Annotatable = Produced
<1>1. entries = <<>> /\ DOMAIN entries = {}
  BY DEF DeliveryInv
<1>2. Of("rejected") = {} /\ Of("unusable") = {}
  BY <1>1 DEF Of
<1>3. Len(frames) \in Nat /\ MaxFrames \in Nat
  BY Domain, DeliveryAssumption
<1>. QED
  BY <1>2, <1>3 DEF ManifestValid, FramesValid, Refused, Listed, WithObject, Annotatable, Produced

LEMMA DatasetIsValid ==
  ASSUME DeliveryInv, kind = "images", phase = "succeeded"
  PROVE  /\ ManifestValid <=> ~Refused
         /\ ~Refused => /\ Listed \ WithObject = Of("unusable")
                        /\ WithObject = Produced /\ Annotatable = Produced
<1>1. \A i \in DOMAIN entries :
        /\ entries[i].keys <=> i \in Usable
        /\ entries[i].category \in Categories
  BY EntryFields DEF DeliveryInv
<1>2. \A i \in DOMAIN entries :
        entries[i].keys <=> entries[i].category \in {"normal", "challenging"}
  BY <1>1 DEF Usable, Categories
<1>3. ~(Len(frames) > MaxFrames)
  <2>1. Len(frames) = 0
    BY DEF DeliveryInv
  <2>. QED BY <2>1, DeliveryAssumption
<1>4. Refused <=> \E i \in DOMAIN entries : entries[i].category = "rejected"
  BY <1>3 DEF Refused, Of
<1>5. ManifestValid <=>
        \A i \in DOMAIN entries : entries[i].keys <=> entries[i].category # "unusable"
  BY DEF ManifestValid, ImagesValid
<1>6. ManifestValid <=> ~Refused
  BY <1>1, <1>2, <1>4, <1>5 DEF Categories
<1>7. ASSUME ~Refused
      PROVE  /\ Listed \ WithObject = Of("unusable")
             /\ WithObject = Produced /\ Annotatable = Produced
  <2>1. \A i \in DOMAIN entries : entries[i].keys <=> entries[i].category # "unusable"
    BY <1>5, <1>6, <1>7
  <2>. QED
    BY <1>1, <1>2, <2>1 DEF Listed, WithObject, Annotatable, Produced, Of, Usable
<1>. QED BY <1>6, <1>7

LEMMA UnusableIsListed ==
  ASSUME DeliveryInv, frames \in Seq(Frame), phase = "succeeded"
  PROVE  /\ ManifestValid <=> ~Refused
         /\ ~Refused => /\ Listed \ WithObject = Of("unusable")
                        /\ WithObject = Produced /\ Annotatable = Produced
<1>1. CASE kind = "video"
  BY <1>1, VideoIsValid
<1>2. CASE kind = "images"
  BY <1>2, DatasetIsValid
<1>. QED BY <1>1, <1>2 DEF DeliveryInv

LEMMA ServedIsProduced ==
  ASSUME DeliveryInv, frames \in Seq(Frame)
  PROVE  PublishedIsReadable
<1>. USE DEF Answers, frame_access, frame_download, dataset_preview, annotation_preview, OfLoaded,
       Found, Addressed
<1>1. ASSUME NEW i, phase # "succeeded"
      PROVE  Answers(i) \cap {"SERVED", "ARTIFACT_NOT_FOUND", "MANIFEST_INVALID"} = {}
  <2>1. Loaded \in {"FAILED_RESULT_UNAVAILABLE", "RESULT_NOT_READY"}
    BY <1>1 DEF DeliveryInv, Loaded
  <2>. QED BY <2>1
<1>2. ASSUME NEW i, phase = "succeeded", Refused
      PROVE  Answers(i) = {"MANIFEST_INVALID"}
  <2>1. Loaded = "MANIFEST_INVALID"
    BY <1>2, UnusableIsListed DEF Loaded
  <2>. QED BY <2>1
<1>3. ASSUME phase = "succeeded", ~Refused
      PROVE  /\ Loaded = "LOADED"
             /\ Listed \ WithObject = Of("unusable")
             /\ WithObject = Produced /\ Annotatable = Produced
  BY <1>3, UnusableIsListed DEF Loaded
<1>4. ASSUME NEW i, phase = "succeeded", ~Refused, i \in Produced
      PROVE  Answers(i) = {"SERVED"} /\ i \in Addressed /\ i \in Annotatable
  BY <1>3, <1>4
<1>5. ASSUME NEW i, phase = "succeeded", ~Refused, i \notin Produced
      PROVE  /\ "SERVED" \notin Answers(i) /\ i \notin Addressed /\ i \notin Annotatable
             /\ frame_access(i) = "MANIFEST_INVALID" <=> i \in Of("unusable")
             /\ frame_download(i) = "ARTIFACT_NOT_FOUND"
             /\ dataset_preview(i) = "ARTIFACT_NOT_FOUND"
             /\ annotation_preview(i) = "ARTIFACT_NOT_FOUND"
  <2>1. Found(i) = "ARTIFACT_NOT_FOUND" /\ Loaded = "LOADED"
    BY <1>3, <1>5
  <2>2. /\ frame_download(i) = "ARTIFACT_NOT_FOUND"
        /\ dataset_preview(i) = "ARTIFACT_NOT_FOUND"
        /\ annotation_preview(i) = "ARTIFACT_NOT_FOUND"
    BY <2>1
  <2>3. frame_access(i) = IF i \in Of("unusable") THEN "MANIFEST_INVALID" ELSE "ARTIFACT_NOT_FOUND"
    BY <1>3, <1>5, <2>1
  <2>. QED BY <1>3, <1>5, <2>2, <2>3
<1>. QED BY <1>1, <1>2, <1>4, <1>5 DEF PublishedIsReadable, Produced, Refused

\* What a worker has published the API serves to all of its readers, and nothing else, but
\* for the two kinds of results that validate_manifest() and validate_dataset_manifest()
\* refuse to all of them; and only frame_access() calls the manifest of a result that is
\* served invalid, for an image that has no address.
THEOREM SpecPublishedIsReadable == Spec => []PublishedIsReadable
<1>1. DeliveryInv /\ [Next]_deliveryVars => DeliveryInv'
  BY DeliveryStep
<1>2. SelectionInv /\ DeliveryInv => PublishedIsReadable
  BY ServedIsProduced DEF SelectionInv, SelectionTypeOK
<1>. QED BY <1>1, <1>2, DeliveryStart, SpecSelectionInv, PTL DEF Spec

-----------------------------------------------------------------------------
(* The first cap elements of a finite set that is ranked *)

\* A smallest set without an element of least rank would have a smaller one.
LEMMA LeastRank ==
  ASSUME NEW S, IsFiniteSet(S), S # {}, NEW rank \in [S -> Nat]
  PROVE  \E m \in S : \A n \in S : rank[m] <= rank[n]
<1>. DEFINE Bad == {T \in SUBSET S : T # {} /\ ~\E m \in T : \A n \in T : rank[m] <= rank[n]}
<1>. SUFFICES ASSUME S \in Bad
              PROVE  FALSE
  OBVIOUS
<1>1. IsWellFoundedOn(StrictSubsetOrdering(S), SUBSET S)
  BY FS_StrictSubsetOrderingWellFounded, FS_FiniteSubsetsOfFinite
<1>2. PICK T \in Bad : \A U \in Bad : <<U, T>> \notin StrictSubsetOrdering(S)
  <2>. Bad \subseteq SUBSET S /\ Bad # {}
    OBVIOUS
  <2>. HIDE DEF Bad
  <2>. QED BY <1>1, WFMin
<1>3. PICK x \in T : TRUE
  OBVIOUS
<1>4. T \ {x} \notin Bad
  <2>1. T \ {x} \in SUBSET S /\ T \in SUBSET S /\ T \ {x} # T
    BY <1>3
  <2>2. <<T \ {x}, T>> \in StrictSubsetOrdering(S)
    BY <2>1 DEF StrictSubsetOrdering
  <2>. QED BY <1>2, <2>2
<1>5. CASE T \ {x} = {}
  <2>1. \A n \in T : n = x
    BY <1>5
  <2>2. rank[x] <= rank[x]
    BY <1>3
  <2>. QED BY <1>3, <2>1, <2>2
<1>6. CASE T \ {x} # {}
  <2>1. PICK m \in T \ {x} : \A n \in T \ {x} : rank[m] <= rank[n]
    BY <1>4, <1>6
  <2>2. rank[m] \in Nat /\ rank[x] \in Nat /\ \A n \in T : rank[n] \in Nat
    BY <1>3, <2>1
  <2>3. CASE rank[m] <= rank[x]
    BY <2>1, <2>3
  <2>4. CASE rank[x] <= rank[m]
    <3>1. \A n \in T : rank[x] <= rank[n]
      BY <2>1, <2>2, <2>4
    <3>. QED BY <1>3, <3>1
  <2>. QED BY <2>2, <2>3, <2>4
<1>. QED BY <1>5, <1>6

Ahead(C, rank, i) == {j \in C : rank[j] < rank[i]}
FirstOf(C, rank, cap) == {i \in C : Cardinality(Ahead(C, rank, i)) < cap}

LEMMA AheadGrows ==
  ASSUME NEW C, IsFiniteSet(C), NEW rank \in [C -> Nat], NEW i \in C
  PROVE  /\ IsFiniteSet(Ahead(C, rank, i)) /\ Cardinality(Ahead(C, rank, i)) \in Nat
         /\ \A j \in C : rank[i] < rank[j] =>
              Cardinality(Ahead(C, rank, i)) < Cardinality(Ahead(C, rank, j))
         /\ \A j \in C : rank[i] = rank[j] => Ahead(C, rank, i) = Ahead(C, rank, j)
<1>1. \A j \in C : /\ Ahead(C, rank, j) \in SUBSET C
                   /\ IsFiniteSet(Ahead(C, rank, j)) /\ Cardinality(Ahead(C, rank, j)) \in Nat
  BY FS_Subset, FS_CardinalityType DEF Ahead
<1>2. ASSUME NEW j \in C, rank[i] < rank[j]
      PROVE  Cardinality(Ahead(C, rank, i)) < Cardinality(Ahead(C, rank, j))
  <2>0. \A k \in C : rank[k] \in Nat
    OBVIOUS
  <2>1. Ahead(C, rank, i) \in SUBSET Ahead(C, rank, j)
    BY <1>2, <2>0 DEF Ahead
  <2>2. i \in Ahead(C, rank, j) /\ i \notin Ahead(C, rank, i)
    BY <1>2, <2>0 DEF Ahead
  <2>3. /\ Cardinality(Ahead(C, rank, i)) <= Cardinality(Ahead(C, rank, j))
        /\ Cardinality(Ahead(C, rank, i)) # Cardinality(Ahead(C, rank, j))
    BY <1>1, <2>1, <2>2, FS_Subset
  <2>. QED BY <1>1, <2>3
<1>3. \A j \in C : rank[i] = rank[j] => Ahead(C, rank, i) = Ahead(C, rank, j)
  BY DEF Ahead
<1>. QED BY <1>1, <1>2, <1>3

LEMMA FirstFit ==
  ASSUME NEW C, IsFiniteSet(C), NEW rank \in [C -> Nat], NEW cap \in Nat,
         \A i, j \in C : rank[i] = rank[j] => i = j
  PROVE  /\ IsFiniteSet(FirstOf(C, rank, cap))
         /\ Cardinality(FirstOf(C, rank, cap)) \in Nat
         /\ Cardinality(FirstOf(C, rank, cap)) <= cap
<1>. DEFINE K == FirstOf(C, rank, cap)
            f == [i \in K |-> Cardinality(Ahead(C, rank, i))]
<1>1. K \in SUBSET C /\ IsFiniteSet(K)
  BY FS_Subset DEF FirstOf
<1>2. \A i \in K : Cardinality(Ahead(C, rank, i)) \in 0..cap - 1
  BY AheadGrows DEF FirstOf
<1>3. ASSUME NEW i \in K, NEW j \in K, f[i] = f[j]
      PROVE  i = j
  <2>1. /\ i \in C /\ j \in C /\ rank[i] \in Nat /\ rank[j] \in Nat
        /\ Cardinality(Ahead(C, rank, i)) \in Nat
        /\ Cardinality(Ahead(C, rank, i)) = Cardinality(Ahead(C, rank, j))
    BY <1>1, <1>3, AheadGrows
  <2>2. ~(rank[i] < rank[j]) /\ ~(rank[j] < rank[i])
    BY <2>1, AheadGrows
  <2>3. rank[i] = rank[j]
    BY <2>1, <2>2
  <2>. QED BY <2>1, <2>3
<1>4. f \in [K -> 0..cap - 1]
  BY <1>2
<1>5. f \in Injection(K, 0..cap - 1)
  BY <1>3, <1>4 DEF Injection, IsInjective
<1>6. IsFiniteSet(0..cap - 1) /\ Cardinality(0..cap - 1) = cap
  BY FS_Interval
<1>7. Cardinality(K) <= Cardinality(0..cap - 1)
  BY <1>5, <1>6, FS_Injection
<1>. QED BY <1>1, <1>6, <1>7, FS_CardinalityType

LEMMA FirstFill ==
  ASSUME NEW C, IsFiniteSet(C), NEW rank \in [C -> Nat], NEW cap \in Nat,
         NEW i \in C, i \notin FirstOf(C, rank, cap)
  PROVE  /\ cap <= Cardinality(FirstOf(C, rank, cap))
         /\ \A k \in FirstOf(C, rank, cap) : rank[k] < rank[i]
<1>. DEFINE K == FirstOf(C, rank, cap)
            left == C \ K
<1>1. K \in SUBSET C /\ left \in SUBSET C /\ IsFiniteSet(K) /\ IsFiniteSet(left)
      /\ Cardinality(K) \in Nat /\ i \in left
  BY FS_Subset, FS_CardinalityType DEF FirstOf
<1>2. \A j \in left : cap <= Cardinality(Ahead(C, rank, j))
  BY AheadGrows DEF FirstOf
<1>3. PICK m \in left : \A n \in left : rank[m] <= rank[n]
  <2>. DEFINE r == [n \in left |-> rank[n]]
  <2>1. r \in [left -> Nat] /\ left # {}
    BY <1>1
  <2>2. \E m \in left : \A n \in left : r[m] <= r[n]
    <3>. HIDE DEF r, left
    <3>. QED BY <1>1, <2>1, LeastRank
  <2>. QED BY <2>2
<1>4. Ahead(C, rank, m) \in SUBSET K
  <2>1. \A j \in C : rank[j] \in Nat
    OBVIOUS
  <2>2. \A j \in Ahead(C, rank, m) : j \in C /\ rank[j] < rank[m]
    BY DEF Ahead
  <2>3. \A j \in Ahead(C, rank, m) : j \notin left
    BY <1>1, <1>3, <2>1, <2>2
  <2>. QED BY <2>2, <2>3
<1>5. cap <= Cardinality(K)
  <2>1. Cardinality(Ahead(C, rank, m)) <= Cardinality(K)
    BY <1>1, <1>4, FS_Subset
  <2>2. Cardinality(Ahead(C, rank, m)) \in Nat
    BY <1>1, AheadGrows
  <2>. QED BY <1>1, <1>2, <2>1, <2>2
<1>6. ASSUME NEW k \in K
      PROVE  rank[k] < rank[i]
  <2>1. k \in C /\ rank[k] \in Nat /\ rank[i] \in Nat
    BY <1>1
  <2>2. Cardinality(Ahead(C, rank, k)) < cap /\ Cardinality(Ahead(C, rank, i)) >= cap
    BY <1>1, <1>2, <1>6 DEF FirstOf
  <2>3. /\ Cardinality(Ahead(C, rank, k)) \in Nat /\ Cardinality(Ahead(C, rank, i)) \in Nat
    BY <2>1, AheadGrows
  <2>4. rank[i] # rank[k]
    BY <2>1, <2>2, <2>3, AheadGrows
  <2>5. ~(rank[i] < rank[k])
    BY <2>1, <2>2, <2>3, AheadGrows
  <2>. QED BY <2>1, <2>4, <2>5
<1>. QED BY <1>5, <1>6

-----------------------------------------------------------------------------
(* The images recommended for training *)

LEMMA EntrySets ==
  ASSUME DatasetInv
  PROVE  /\ IsFiniteSet(DOMAIN entries)
         /\ \A S \in SUBSET DOMAIN entries : IsFiniteSet(S) /\ Cardinality(S) \in Nat
         /\ \A category : /\ Of(category) \subseteq DOMAIN entries
                          /\ Distinct(category) \subseteq Of(category)
<1>1. IsFiniteSet(DOMAIN entries)
  <2>1. Len(entries) \in Nat /\ DOMAIN entries = 1..Len(entries)
    BY EntryFields
  <2>. QED BY <2>1, FS_Interval
<1>2. \A S \in SUBSET DOMAIN entries : IsFiniteSet(S) /\ Cardinality(S) \in Nat
  BY <1>1, FS_Subset, FS_CardinalityType
<1>. QED BY <1>1, <1>2 DEF Of, Distinct

\* Contents and categories determine each other.
LEMMA ContentOfCategory ==
  ASSUME DatasetInv
  PROVE  \A i \in DOMAIN entries :
           /\ entries[i].category = "normal" <=> entries[i].content \in Normal
           /\ entries[i].category = "challenging" => entries[i].content \in ToSet(Challenging)
<1>. SUFFICES ASSUME NEW i \in DOMAIN entries
              PROVE  /\ entries[i].category = "normal" <=> entries[i].content \in Normal
                     /\ entries[i].category = "challenging" =>
                          entries[i].content \in ToSet(Challenging)
  OBVIOUS
<1>. DEFINE content == entries[i].content
<1>1. content \in Contents /\ entries[i].category = Category(content)
  BY EntryFields
<1>2. /\ Normal \cap (Unusable \cup Undecodable) = {}
  BY DatasetAssumption
<1>. HIDE DEF content
<1>3. Category(content) = "normal" <=> content \in Normal
  BY <1>2 DEF Category
<1>4. Category(content) = "challenging" => content \notin Undecodable \cup Unusable \cup Normal
  BY DEF Category
<1>. QED BY <1>1, <1>3, <1>4 DEF Contents, content

\* A challenging content has a place of its own in the order.
LEMMA RankOfContent ==
  ASSUME DatasetInv
  PROVE  \A i \in Of("challenging") :
           /\ Rank(i) \in Nat
           /\ \A j \in Of("challenging") : Rank(i) = Rank(j) <=> entries[i].content = entries[j].content
<1>1. DOMAIN Challenging \subseteq Nat
  <2>1. DOMAIN Challenging = 1..Len(Challenging) /\ Len(Challenging) \in Nat
    BY DatasetAssumption, LenProperties
  <2>. QED BY <2>1
<1>2. \A i \in Of("challenging") : Rank(i) \in DOMAIN Challenging /\ Challenging[Rank(i)] = entries[i].content
  <2>. SUFFICES ASSUME NEW i \in Of("challenging")
                PROVE  Rank(i) \in DOMAIN Challenging /\ Challenging[Rank(i)] = entries[i].content
    OBVIOUS
  <2>1. entries[i].content \in ToSet(Challenging)
    BY ContentOfCategory DEF Of
  <2>2. \E n \in DOMAIN Challenging : Challenging[n] = entries[i].content
    BY <2>1 DEF ToSet
  <2>. QED BY <2>2 DEF Rank
<1>3. \A i, j \in Of("challenging") : entries[i].content = entries[j].content => Rank(i) = Rank(j)
  BY DEF Rank
<1>. QED BY <1>1, <1>2, <1>3

LEMMA DistinctContents ==
  ASSUME DatasetInv
  PROVE  /\ Distinct("normal") \subseteq Decoded /\ Distinct("challenging") \subseteq Decoded
         /\ \A i, j \in Distinct("normal") \cup Distinct("challenging") :
              entries[i].content = entries[j].content => i = j
<1>1. \A i \in Distinct("normal") \cup Distinct("challenging") :
        i \in Decoded /\ ~entries[i].duplicate
  BY DEF Distinct, Of, Decoded
<1>. QED BY <1>1 DEF DatasetInv, OneOfEach

LEMMA RecommendedIsFair ==
  ASSUME DatasetInv
  PROVE  RecommendedFair
<1>. DEFINE N == Distinct("normal")
            C == Distinct("challenging")
            rank == [i \in C |-> Rank(i)]
            K == FirstOf(C, rank, Cap)
            left == Of("challenging") \ K
            contents == {entries[i].content : i \in K}
<1>1. /\ N \subseteq DOMAIN entries /\ C \subseteq DOMAIN entries
      /\ IsFiniteSet(N) /\ Cardinality(N) \in Nat /\ IsFiniteSet(C)
      /\ N \subseteq Of("normal") /\ C \subseteq Of("challenging")
  <2>1. /\ N \subseteq Of("normal") /\ C \subseteq Of("challenging")
        /\ Of("normal") \subseteq DOMAIN entries /\ Of("challenging") \subseteq DOMAIN entries
    BY EntrySets
  <2>. QED BY <2>1, EntrySets
<1>2. Cap \in Nat /\ 4 * Cap <= Cardinality(N) /\ Cardinality(N) < 4 * Cap + 4
  BY <1>1 DEF Cap
<1>3. rank \in [C -> Nat] /\ \A i, j \in C : rank[i] = rank[j] => i = j
  <2>1. \A i \in C : Rank(i) \in Nat /\ rank[i] = Rank(i)
    BY <1>1, RankOfContent
  <2>2. \A i, j \in C : Rank(i) = Rank(j) => i = j
    BY <1>1, RankOfContent, DistinctContents
  <2>. QED BY <2>1, <2>2
<1>4. Recommended = N \cup K
  <2>1. \A i \in C : Ahead(C, rank, i) = {j \in C : Rank(j) < Rank(i)}
    BY DEF Ahead
  <2>. QED BY <2>1 DEF Recommended, FirstOf
<1>5. \A i \in C : rank[i] = Rank(i)
  OBVIOUS
<1>. HIDE DEF rank
<1>6. K \subseteq C /\ N \cap Of("challenging") = {} /\ C \cap Of("normal") = {}
  BY <1>1 DEF FirstOf, Of
<1>. HIDE DEF N, C
<1>7. IsFiniteSet(K) /\ Cardinality(K) \in Nat /\ Cardinality(K) <= Cap
  BY <1>1, <1>2, <1>3, FirstFit
<1>8. \A i \in C : i \notin K => Cap <= Cardinality(K) /\ \A k \in K : rank[k] < rank[i]
  BY <1>1, <1>2, <1>3, FirstFill
<1>. HIDE DEF K
<1>9. Recommended \cap Of("normal") = N /\ Recommended \cap Of("challenging") = K
  BY <1>1, <1>4, <1>6
<1>10. {entries[i].content : i \in N} = Normal \cap Seen
  <2>1. ASSUME NEW i \in N
        PROVE  entries[i].content \in Normal \cap Seen
    <3>1. i \in DOMAIN entries /\ entries[i].category = "normal"
      BY <1>1 DEF Of
    <3>. QED BY <3>1, ContentOfCategory DEF Seen
  <2>2. ASSUME NEW content \in Normal \cap Seen
        PROVE  \E i \in N : entries[i].content = content
    <3>1. PICK k \in Decoded : entries[k].content = content
      BY DEF Seen, Decoded
    <3>2. PICK i \in Decoded : entries[i].content = entries[k].content /\ ~entries[i].duplicate
      BY DEF DatasetInv, OneOfEach
    <3>3. i \in DOMAIN entries /\ entries[i].category = "normal"
      BY <3>1, <3>2, ContentOfCategory DEF Decoded
    <3>. QED BY <3>1, <3>2, <3>3 DEF N, Distinct, Of
  <2>. QED BY <2>1, <2>2
<1>11. Cardinality({entries[i].content : i \in Recommended}) = Cardinality(Recommended)
  <2>. DEFINE f == [i \in Recommended |-> entries[i].content]
              T == {entries[i].content : i \in Recommended}
  <2>1. IsFiniteSet(Recommended)
    BY <1>1, <1>4, <1>7, FS_Union
  <2>2. \A i, j \in Recommended : entries[i].content = entries[j].content => i = j
    BY <1>4, <1>6, DistinctContents DEF N, C
  <2>3. f \in Bijection(Recommended, T)
    <3>1. f \in [Recommended -> T]
      OBVIOUS
    <3>2. f \in Injection(Recommended, T)
      BY <2>2, <3>1 DEF Injection, IsInjective
    <3>3. f \in Surjection(Recommended, T)
      BY <3>1 DEF Surjection
    <3>. QED BY <3>2, <3>3 DEF Bijection
  <2>. QED BY <2>1, <2>3, FS_Bijection DEF ExistsBijection
<1>12. Recommended \subseteq Accepted
  BY <1>1, <1>4, <1>6 DEF N, C, Distinct, Of, Accepted, Usable
<1>13. Cardinality(Recommended) = Cardinality(N) + Cardinality(K)
  <2>1. N \cap K = {}
    BY <1>1, <1>6
  <2>2. Cardinality(N \cup K) = Cardinality(N) + Cardinality(K) - Cardinality(N \cap K)
    BY <1>1, <1>7, FS_Union
  <2>3. Cardinality(N \cap K) = 0
    BY <2>1, FS_EmptySet
  <2>. QED BY <1>1, <1>4, <1>7, <2>2, <2>3
<1>14. 5 * Cardinality(K) <= Cardinality(Recommended)
  BY <1>1, <1>2, <1>7, <1>13
<1>15. ASSUME NEW i \in left, entries[i].content \notin contents
       PROVE  /\ 5 * (Cardinality(K) + 1) > Cardinality(Recommended) + 1
              /\ \A k \in K : Rank(k) < Rank(i)
  <2>1. i \in Of("challenging") /\ i \in Decoded
    BY <1>15 DEF Of, Decoded
  <2>2. PICK j \in Decoded : entries[j].content = entries[i].content /\ ~entries[j].duplicate
    BY <2>1 DEF DatasetInv, OneOfEach
  <2>3. j \in Of("challenging")
    BY <2>1, <2>2 DEF DatasetInv, Decoded, Of
  <2>4. j \in C /\ Rank(j) = Rank(i)
    BY <2>1, <2>2, <2>3, RankOfContent DEF C, Distinct
  <2>5. j \notin K
    BY <1>15, <2>2
  <2>6. Cap <= Cardinality(K) /\ \A k \in K : rank[k] < rank[j]
    BY <1>8, <2>4, <2>5
  <2>7. \A k \in K : Rank(k) < Rank(i)
    BY <1>5, <1>6, <2>4, <2>6
  <2>8. 5 * (Cardinality(K) + 1) > Cardinality(Recommended) + 1
    BY <1>1, <1>2, <1>7, <1>13, <2>6
  <2>. QED BY <2>7, <2>8
<1>. QED BY <1>9, <1>10, <1>11, <1>12, <1>14, <1>15, <1>4 DEF RecommendedFair

\* Of a data set, a training is recommended every normal content once and the best of the
\* challenging, up to a fifth of the whole (_recommended()).
THEOREM SpecRecommendedFair == Spec => []RecommendedFair
<1>1. DeliveryInv /\ [Next]_deliveryVars => DeliveryInv'
  BY DeliveryStep
<1>2. DeliveryInv => RecommendedFair
  BY RecommendedIsFair DEF DeliveryInv
<1>. QED BY <1>1, <1>2, DeliveryStart, PTL DEF Spec

-----------------------------------------------------------------------------
(* Rounding *)

LEMMA Geometry ==
  /\ Side \in Nat /\ Side > 0 /\ Unit \in Nat /\ Unit > 0 /\ MinBox \in Nat /\ MinBox > 0
  /\ Scale \in Nat
<1>1. Side \in Nat /\ Side > 0 /\ Unit \in Nat /\ Unit > 0 /\ MinBox \in Nat /\ MinBox > 0
  BY GeometryAssumption
<1>2. \A a, b \in Nat : a * b \in Nat
  OBVIOUS
<1>. QED BY <1>1, <1>2 DEF Scale

LEMMA Division ==
  ASSUME NEW n \in Int, NEW d \in Nat, d > 0
  PROVE  /\ n \div d \in Int /\ (n % d) \in Nat /\ (n % d) < d
         /\ n = d * (n \div d) + (n % d)
<1>1. n \div d \in Int /\ (n % d) \in 0..(d - 1)
  OBVIOUS
<1>2. n = d * (n \div d) + (n % d)
  OBVIOUS
<1>. QED BY <1>1, <1>2

LEMMA HalfIsClose ==
  ASSUME NEW n \in Int, NEW d \in Nat, d > 0
  PROVE  /\ RoundHalf(n, d) \in Int
         /\ 2 * (RoundHalf(n, d) * d) - 2 * n <= d
         /\ 2 * n - 2 * (RoundHalf(n, d) * d) <= d
<1>. DEFINE q == (2 * n + d) \div (2 * d)
            r == (2 * n + d) % (2 * d)
<1>1. q \in Int /\ r \in Nat /\ r < 2 * d /\ 2 * n + d = 2 * d * q + r
  BY Division
<1>2. RoundHalf(n, d) = q
  BY DEF RoundHalf
<1>. HIDE DEF q, r
<1>3. 2 * d * q = 2 * (q * d)
  BY <1>1
<1>4. q * d \in Int
  BY <1>1
<1>. QED BY <1>1, <1>2, <1>3, <1>4

LEMMA HalfIsNearest ==
  ASSUME NEW n \in Int, NEW d \in Nat, d > 0, NEW m \in Int,
         2 * (m * d) - 2 * n <= d, 2 * n - 2 * (m * d) < d
  PROVE  RoundHalf(n, d) = m
<1>. DEFINE q == (2 * n + d) \div (2 * d)
            r == (2 * n + d) % (2 * d)
<1>1. q \in Int /\ r \in Nat /\ r < 2 * d /\ 2 * n + d = 2 * d * q + r
  BY Division
<1>2. RoundHalf(n, d) = q
  BY DEF RoundHalf
<1>. HIDE DEF q, r
<1>3. 2 * d * q = 2 * (q * d) /\ q * d \in Int /\ m * d \in Int
  BY <1>1
<1>4. m * d - q * d < d /\ q * d - m * d < d
  BY <1>1, <1>3
<1>5. (m - q) * d = m * d - q * d
  BY <1>1
<1>6. CASE m - q >= 1
  <2>1. (m - q) * d >= d
    BY <1>1, <1>6
  <2>. QED BY <1>3, <1>4, <1>5, <2>1
<1>7. CASE m - q <= -1
  <2>1. (m - q) * d <= -d
    BY <1>1, <1>7
  <2>. QED BY <1>3, <1>4, <1>5, <2>1
<1>. QED BY <1>1, <1>2, <1>6, <1>7

LEMMA FixedIsClose ==
  ASSUME NEW n \in Int, NEW d \in Nat, d > 0, NEW q \in Fixed(n, d)
  PROVE  q \in Int /\ 2 * (q * d) - 2 * n <= d /\ 2 * n - 2 * (q * d) <= d
<1>1. q \in Int
  BY Division DEF Fixed
<1>2. 2 * q * d - 2 * n \in -d..d
  BY DEF Fixed
<1>3. 2 * q * d = 2 * (q * d) /\ q * d \in Int
  BY <1>1
<1>. QED BY <1>1, <1>2, <1>3

\* An image takes at least a pixel of the square, and no more than its side.
LEMMA ContentFits ==
  ASSUME NEW w \in Nat, NEW h \in Nat, w > 0, h > 0
  PROVE  Content(w, h) \in 1..Side
<1>. DEFINE longer == IF w > h THEN w ELSE h
            out == RoundEven(w * Side, longer)
            q == (w * Side) \div longer
            r == (w * Side) % longer
<1>1. longer \in Nat /\ longer > 0 /\ w <= longer
  OBVIOUS
<1>2. w * Side \in Nat
  BY Geometry
<1>3. q \in Int /\ r \in Nat /\ r < longer /\ w * Side = longer * q + r
  BY <1>1, <1>2, Division
<1>4. out = IF 2 * r < longer \/ (2 * r = longer /\ q % 2 = 0) THEN q ELSE q + 1
  BY DEF RoundEven
<1>5. Content(w, h) = IF longer <= Side THEN w ELSE IF out = 0 THEN 1 ELSE out
  BY DEF Content
<1>. HIDE DEF longer, out, q, r
<1>6. w * Side <= longer * Side /\ longer * Side \in Nat /\ longer * q \in Int
  BY <1>1, <1>3, Geometry
<1>7. 0 <= q
  <2>. SUFFICES ASSUME q <= -1 PROVE FALSE
    BY <1>3
  <2>1. longer * q <= -longer
    BY <1>1, <1>3
  <2>. QED BY <1>1, <1>2, <1>3, <1>6, <2>1
<1>8. q <= Side
  <2>. SUFFICES ASSUME q >= Side + 1 PROVE FALSE
    BY <1>3, Geometry
  <2>1. longer * q >= longer * Side + longer
    BY <1>1, <1>3, Geometry
  <2>. QED BY <1>1, <1>2, <1>3, <1>6, <2>1
<1>9. q = Side => r = 0
  <2>. HAVE q = Side
  <2>. QED BY <1>1, <1>2, <1>3, <1>6
<1>10. out <= Side /\ 0 <= out /\ out \in Int
  BY <1>1, <1>3, <1>4, <1>7, <1>8, <1>9, Geometry
<1>. QED BY <1>1, <1>5, <1>10, Geometry

-----------------------------------------------------------------------------
(* The place of a box *)

\* What a row says of a box that was sent, times content and without the padding, is off
\* by half a unit of the square at most.
LEMMA StoredIsClose ==
  ASSUME NEW content \in 1..Side, NEW x \in Int, NEW y \in Int
  PROVE  /\ ToStorage(<<x, y>>, content) \in Int \X Int
         /\ LET shown == FromStorage(ToStorage(<<x, y>>, content), content)
            IN  /\ shown[1] \in Int /\ shown[2] \in Int
                /\ 2 * shown[1] - 2 * (x * content) <= Side
                /\ 2 * (x * content) - 2 * shown[1] <= Side
                /\ 2 * shown[2] - 2 * (y * content) <= Side
                /\ 2 * (y * content) - 2 * shown[2] <= Side
<1>. DEFINE p == Padding(content) * Unit
            h == RoundHalf(x * content, Side)
            k == RoundHalf(y * content, Side)
<1>1. p \in Int
  <2>1. Padding(content) \in Int
    BY Geometry DEF Padding
  <2>. QED BY <2>1, Geometry
<1>2. x * content \in Int /\ y * content \in Int
  BY Geometry
<1>3. /\ h \in Int /\ 2 * (h * Side) - 2 * (x * content) <= Side
      /\ 2 * (x * content) - 2 * (h * Side) <= Side
  BY <1>2, Geometry, HalfIsClose
<1>4. /\ k \in Int /\ 2 * (k * Side) - 2 * (y * content) <= Side
      /\ 2 * (y * content) - 2 * (k * Side) <= Side
  BY <1>2, Geometry, HalfIsClose
<1>5. ToStorage(<<x, y>>, content) = <<p + h, k>>
  BY DEF ToStorage
<1>. HIDE DEF h, k
<1>6. \A a, b : FromStorage(<<a, b>>, content) = <<(a - p) * Side, b * Side>>
  BY DEF FromStorage
<1>. HIDE DEF p
<1>7. (p + h) - p = h /\ h * Side \in Int /\ k * Side \in Int
  BY <1>1, <1>3, <1>4, Geometry
<1>. QED BY <1>1, <1>3, <1>4, <1>5, <1>6, <1>7

LEMMA DrawnIsClose ==
  ASSUME NEW content \in 1..Side, NEW left \in Nat, NEW width \in Nat,
         NEW x \in Fixed(2 * left + width, 8), NEW y \in Fixed(width, 4)
  PROVE  /\ x \in Int /\ y \in Int /\ x * content \in Int /\ y * content \in Int
         /\ left * content \in Nat /\ width * content \in Nat
         /\ 8 * (x * content) - (2 * (left * content) + width * content) <= 4 * content
         /\ 2 * (left * content) + width * content - 8 * (x * content) <= 4 * content
         /\ 4 * (y * content) - width * content <= 2 * content
         /\ width * content - 4 * (y * content) <= 2 * content
<1>1. /\ x \in Int /\ 2 * (x * 8) - 2 * (2 * left + width) <= 8
      /\ 2 * (2 * left + width) - 2 * (x * 8) <= 8
  BY FixedIsClose
<1>2. y \in Int /\ 2 * (y * 4) - 2 * width <= 4 /\ 2 * width - 2 * (y * 4) <= 4
  BY FixedIsClose
<1>3. content \in Nat /\ content > 0
  BY Geometry
<1>4. ASSUME NEW a \in Int, NEW b \in Nat, a <= b
      PROVE  a * content <= b * content
  BY <1>3, <1>4
<1>5. /\ x * content \in Int /\ y * content \in Int
      /\ left * content \in Nat /\ width * content \in Nat
  BY <1>1, <1>2, <1>3
<1>6. /\ (8 * x - (2 * left + width)) * content = 8 * (x * content) - (2 * (left * content) + width * content)
      /\ (2 * left + width - 8 * x) * content = 2 * (left * content) + width * content - 8 * (x * content)
      /\ (4 * y - width) * content = 4 * (y * content) - width * content
      /\ (width - 4 * y) * content = width * content - 4 * (y * content)
  BY <1>1, <1>2, <1>3
<1>7. /\ 8 * x - (2 * left + width) <= 4 /\ 2 * left + width - 8 * x <= 4
      /\ 4 * y - width <= 2 /\ width - 4 * y <= 2
  BY <1>1, <1>2
<1>8. /\ (8 * x - (2 * left + width)) * content <= 4 * content
      /\ (2 * left + width - 8 * x) * content <= 4 * content
      /\ (4 * y - width) * content <= 2 * content
      /\ (width - 4 * y) * content <= 2 * content
  BY <1>1, <1>2, <1>4, <1>7
<1>. QED BY <1>1, <1>2, <1>5, <1>6, <1>8

\* What the workspace sends of a box that nobody has touched becomes the same row again.
LEMMA SameRowAgain ==
  ASSUME NEW content \in 1..Side, NEW row \in Int \X Int,
         NEW sent \in SentAgain(row, content)
  PROVE  /\ sent[1] \in Int /\ sent[2] \in Int /\ sent = <<sent[1], sent[2]>>
         /\ ToStorage(sent, content) = row
         /\ LET shown == FromStorage(row, content)
            IN  /\ shown[1] \in Int /\ shown[2] = row[2] * Side /\ shown[2] \in Int
                /\ 2 * (sent[1] * content) - 2 * shown[1] <= content
                /\ 2 * shown[1] - 2 * (sent[1] * content) <= content
                /\ 2 * (sent[2] * content) - 2 * shown[2] <= content
                /\ 2 * shown[2] - 2 * (sent[2] * content) <= content
<1>. DEFINE p == Padding(content) * Unit
            h == row[1] - p
            x == sent[1]
            y == sent[2]
<1>1. p \in Int /\ row[1] \in Int /\ row[2] \in Int /\ row = <<row[1], row[2]>>
  <2>1. Padding(content) \in Int
    BY Geometry DEF Padding
  <2>. QED BY <2>1, Geometry
<1>2. content \in Nat /\ content > 0 /\ content <= Side /\ h \in Int /\ h * Side \in Int
      /\ row[2] * Side \in Int
  BY <1>1, Geometry
<1>3. FromStorage(row, content) = <<h * Side, row[2] * Side>>
  BY DEF FromStorage
<1>4. x \in Fixed(h * Side, content) /\ y \in Fixed(row[2] * Side, content) /\ sent = <<x, y>>
  BY <1>3 DEF SentAgain
<1>. HIDE DEF p, h, x, y
<1>5. /\ x \in Int /\ 2 * (x * content) - 2 * (h * Side) <= content
      /\ 2 * (h * Side) - 2 * (x * content) <= content
  BY <1>2, <1>4, FixedIsClose
<1>6. /\ y \in Int /\ 2 * (y * content) - 2 * (row[2] * Side) <= content
      /\ 2 * (row[2] * Side) - 2 * (y * content) <= content
  BY <1>1, <1>2, <1>4, FixedIsClose
<1>7. ASSUME NEW z \in Int, NEW m \in Int,
             2 * (z * content) - 2 * (m * Side) <= content,
             2 * (m * Side) - 2 * (z * content) <= content
      PROVE  RoundHalf(z * content, Side) = m
  <2>1. z * content \in Int /\ m * Side \in Int
    BY <1>2, Geometry
  <2>2. 2 * (m * Side) - 2 * (z * content) <= Side
    BY <1>2, <1>7, <2>1, Geometry
  <2>3. 2 * (z * content) - 2 * (m * Side) < Side
    <3>1. CASE content < Side
      BY <1>2, <1>7, <2>1, <3>1, Geometry
    <3>2. CASE content = Side
      <4>1. (z - m) * Side = z * Side - m * Side /\ z * Side \in Int
        BY Geometry
      <4>2. CASE z - m >= 1
        <5>1. (z - m) * Side >= Side
          BY <4>2, Geometry
        <5>. QED BY <1>7, <2>1, <3>2, <4>1, <5>1, Geometry
      <4>3. CASE z - m <= 0
        <5>1. (z - m) * Side <= 0
          BY <4>3, Geometry
        <5>. QED BY <2>1, <3>2, <4>1, <5>1, Geometry
      <4>. QED BY <4>2, <4>3
    <3>. QED BY <1>2, <3>1, <3>2, Geometry
  <2>. QED BY <2>1, <2>2, <2>3, Geometry, HalfIsNearest
<1>8. RoundHalf(x * content, Side) = h /\ RoundHalf(y * content, Side) = row[2]
  BY <1>1, <1>2, <1>5, <1>6, <1>7
<1>9. ToStorage(sent, content) = row
  <2>1. ToStorage(<<x, y>>, content) = <<p + h, row[2]>>
    BY <1>8 DEF ToStorage, p
  <2>2. p + h = row[1]
    BY <1>1 DEF h
  <2>. QED BY <1>1, <1>4, <2>1, <2>2
<1>. QED BY <1>2, <1>3, <1>4, <1>5, <1>6, <1>9 DEF x, y

Drawn(content, left, width, row) ==
  \E x \in Fixed(2 * left + width, 8), y \in Fixed(width, 4) :
    row = ToStorage(<<x, y>>, content) /\ Contained(row)

LEMMA ShownIsClose ==
  ASSUME NEW content \in 1..Side, NEW left \in Nat, NEW width \in Nat, NEW row,
         Drawn(content, left, width, row)
  PROVE  LET shown == FromStorage(row, content)
             l == left * content
             w == width * content
         IN  /\ shown[1] \in Int /\ shown[2] \in Int /\ l \in Nat /\ w \in Nat
             /\ 8 * shown[1] - (2 * l + w) <= 4 * content + 4 * Side
             /\ 2 * l + w - 8 * shown[1] <= 4 * content + 4 * Side
             /\ 4 * shown[2] - w <= 2 * content + 2 * Side
             /\ w - 4 * shown[2] <= 2 * content + 2 * Side
<1>1. PICK x \in Fixed(2 * left + width, 8), y \in Fixed(width, 4) : row = ToStorage(<<x, y>>, content)
  BY DEF Drawn
<1>. DEFINE X == FromStorage(row, content)[1]
            Y == FromStorage(row, content)[2]
            l == left * content
            w == width * content
            a == x * content
            b == y * content
<1>2. /\ x \in Int /\ y \in Int /\ a \in Int /\ b \in Int /\ l \in Nat /\ w \in Nat
      /\ 8 * a - (2 * l + w) <= 4 * content /\ 2 * l + w - 8 * a <= 4 * content
      /\ 4 * b - w <= 2 * content /\ w - 4 * b <= 2 * content
  BY DrawnIsClose
<1>3. /\ X \in Int /\ Y \in Int
      /\ 2 * X - 2 * a <= Side /\ 2 * a - 2 * X <= Side
      /\ 2 * Y - 2 * b <= Side /\ 2 * b - 2 * Y <= Side
  BY <1>1, <1>2, StoredIsClose
<1>4. content \in Nat
  BY Geometry
<1>. HIDE DEF X, Y, l, w, a, b
<1>5. /\ 8 * X - (2 * l + w) <= 4 * content + 4 * Side
      /\ 2 * l + w - 8 * X <= 4 * content + 4 * Side
      /\ 4 * Y - w <= 2 * content + 2 * Side
      /\ w - 4 * Y <= 2 * content + 2 * Side
  BY <1>2, <1>3, <1>4, Geometry
<1>. QED BY <1>2, <1>3, <1>5 DEF X, Y, l, w

\* A box is refused only at a border, but for rounding.
LEMMA RefusedAtBorder ==
  ASSUME NEW content \in 1..Side, NEW left \in Nat, NEW width \in Nat, NEW row \in Int \X Int,
         Drawn(content, left, width, row), Contained(row),
         \/ MayRefuse(row, content)
         \/ \E sent \in SentAgain(row, content) : ~Saveable(sent, content)
  PROVE  \/ left * content <= 4 * content + 4 * Side
         \/ 4 * Scale * content - left * content - width * content <= 4 * content + 4 * Side
<1>. DEFINE X == FromStorage(row, content)[1]
            Y == FromStorage(row, content)[2]
            l == left * content
            w == width * content
            T == Scale * content
<1>1. /\ X \in Int /\ Y \in Int /\ l \in Nat /\ w \in Nat
      /\ 8 * X - (2 * l + w) <= 4 * content + 4 * Side
      /\ 2 * l + w - 8 * X <= 4 * content + 4 * Side
      /\ 4 * Y - w <= 2 * content + 2 * Side
      /\ w - 4 * Y <= 2 * content + 2 * Side
  BY ShownIsClose
<1>2. content \in Nat /\ content > 0 /\ content <= Side /\ T \in Nat
  BY Geometry
<1>3. 4 * Scale * content = 4 * T /\ 2 * Scale * content = 2 * T
  BY <1>2, Geometry
<1>4. Y = row[2] * Side /\ row[2] >= 1
  BY Geometry DEF Contained, FromStorage
<1>5. Y >= Side
  BY <1>4, Geometry
<1>6. \/ 2 * X - Y <= content
      \/ 2 * X + Y >= 2 * T - content
  <2>1. CASE MayRefuse(row, content)
    <3>1. \/ 2 * X - Y < 1
          \/ 2 * X + Y > 2 * T - 1
      BY <1>1, <1>2, <1>3, <2>1 DEF MayRefuse
    <3>. HIDE DEF X, Y, T
    <3>. QED BY <1>1, <1>2, <3>1
  <2>2. CASE \E sent \in SentAgain(row, content) : ~Saveable(sent, content)
    <3>1. PICK sent \in SentAgain(row, content) : ~Saveable(sent, content)
      BY <2>2
    <3>. DEFINE x == sent[1]
                y == sent[2]
                xc == x * content
                yc == y * content
    <3>2. /\ x \in Int /\ y \in Int /\ ToStorage(sent, content) = row
          /\ 2 * xc - 2 * X <= content /\ 2 * X - 2 * xc <= content
          /\ 2 * yc - 2 * Y <= content /\ 2 * Y - 2 * yc <= content
      BY SameRowAgain
    <3>3. ~Contained(sent)
      BY <3>1, <3>2 DEF Saveable
    <3>4. xc \in Int /\ yc \in Int
      BY <1>2, <3>2
    <3>5. y >= 1
      <4>. SUFFICES ASSUME y <= 0 PROVE FALSE
        BY <3>2
      <4>1. yc <= 0
        BY <1>2, <3>2
      <4>. HIDE DEF yc, Y
      <4>. QED BY <1>1, <1>2, <1>5, <3>2, <3>4, <4>1, Geometry
    <3>6. \/ 2 * x - y <= -1
          \/ 2 * x + y >= 2 * Scale + 1
      BY <3>2, <3>3, <3>5, Geometry DEF Contained
    <3>7. /\ (2 * x - y) * content = 2 * xc - yc
          /\ (2 * x + y) * content = 2 * xc + yc
          /\ (2 * Scale + 1) * content = 2 * T + content
      BY <1>2, <3>2, Geometry
    <3>8. \/ 2 * xc - yc <= -content
          \/ 2 * xc + yc >= 2 * T + content
      <4>1. CASE 2 * x - y <= -1
        <5>1. (2 * x - y) * content <= -content
          BY <1>2, <3>2, <4>1
        <5>. QED BY <3>7, <5>1
      <4>2. CASE 2 * x + y >= 2 * Scale + 1
        <5>1. (2 * x + y) * content >= (2 * Scale + 1) * content
          BY <1>2, <3>2, <4>2, Geometry
        <5>. QED BY <3>7, <5>1
      <4>. QED BY <3>6, <4>1, <4>2
    <3>. HIDE DEF xc, yc, X, Y, T
    <3>. QED BY <1>1, <1>2, <3>2, <3>4, <3>8
  <2>. QED BY <2>1, <2>2
<1>. HIDE DEF X, Y, l, w, T
<1>7. l <= 4 * content + 4 * Side \/ 4 * T - l - w <= 4 * content + 4 * Side
  BY <1>1, <1>2, <1>6, Geometry
<1>. QED BY <1>3, <1>7 DEF l, w

Boxes == [by : {"person", "model"}, content : 1..Side, left : Int, width : Nat,
          row : Int \X Int, saves : Nat]

BoxInv ==
  /\ box = NoBox \/ box \in Boxes
  /\ box.by = "person" =>
       /\ box.left \in Nat /\ Contained(box.row)
       /\ Drawn(box.content, box.left, box.width, box.row)

LEMMA ContentOfSize == \A size \in Sizes : Content(size[1], size[2]) \in 1..Side
<1>. SUFFICES ASSUME NEW size \in Sizes PROVE Content(size[1], size[2]) \in 1..Side
  OBVIOUS
<1>1. size[1] \in Nat /\ size[2] \in Nat /\ size[1] > 0 /\ size[2] > 0
  BY DeliveryAssumption
<1>. QED BY <1>1, ContentFits

LEMMA DrawBoxStep ==
  ASSUME BoxInv, DrawBox
  PROVE  BoxInv'
<1>1. PICK size \in Sizes, width \in 4 * MinBox..4 * Scale :
        \E left \in 0..4 * Scale - width : \E sent \in ToBox(left, width) :
          /\ Saveable(sent, Content(size[1], size[2]))
          /\ box' = [by |-> "person", content |-> Content(size[1], size[2]), left |-> left,
                     width |-> width, row |-> ToStorage(sent, Content(size[1], size[2])),
                     saves |-> 1]
  BY DEF DrawBox
<1>2. PICK left \in 0..4 * Scale - width : \E sent \in ToBox(left, width) :
        /\ Saveable(sent, Content(size[1], size[2]))
        /\ box' = [by |-> "person", content |-> Content(size[1], size[2]), left |-> left,
                   width |-> width, row |-> ToStorage(sent, Content(size[1], size[2])),
                   saves |-> 1]
  BY <1>1
<1>3. PICK sent \in ToBox(left, width) :
        /\ Saveable(sent, Content(size[1], size[2]))
        /\ box' = [by |-> "person", content |-> Content(size[1], size[2]), left |-> left,
                   width |-> width, row |-> ToStorage(sent, Content(size[1], size[2])),
                   saves |-> 1]
  BY <1>2
<1>. DEFINE content == Content(size[1], size[2])
            row == ToStorage(sent, content)
<1>4. content \in 1..Side
  BY ContentOfSize
<1>5. left \in Nat /\ width \in Nat
  BY Geometry
<1>6. PICK x \in Fixed(2 * left + width, 8), y \in Fixed(width, 4) : sent = <<x, y>>
  BY DEF ToBox
<1>7. x \in Int /\ y \in Int
  BY <1>5, FixedIsClose
<1>8. box' = [by |-> "person", content |-> content, left |-> left, width |-> width,
              row |-> row, saves |-> 1]
  BY <1>3
<1>9. Contained(row)
  BY <1>3 DEF Saveable
<1>. HIDE DEF content
<1>10. row \in Int \X Int
  BY <1>4, <1>6, <1>7, StoredIsClose
<1>11. Drawn(content, left, width, row)
  BY <1>6, <1>9 DEF Drawn
<1>. HIDE DEF row
<1>12. box' \in Boxes
  BY <1>4, <1>5, <1>8, <1>10 DEF Boxes
<1>13. /\ box'.content = content /\ box'.left = left /\ box'.width = width /\ box'.row = row
  BY <1>8
<1>. QED BY <1>5, <1>9, <1>11, <1>12, <1>13 DEF BoxInv

LEMMA WithRow ==
  ASSUME NEW b \in Boxes, NEW r \in Int \X Int, NEW n \in Nat
  PROVE  [b EXCEPT !.row = r, !.saves = n] \in Boxes
BY DEF Boxes

LEMMA SaveAgainStep ==
  ASSUME BoxInv, SaveAgain
  PROVE  BoxInv'
<1>1. PICK sent \in SentAgain(box.row, box.content) :
        box' = [box EXCEPT !.row = ToStorage(sent, box.content), !.saves = @ + 1]
  BY DEF SaveAgain
<1>2. box \in Boxes
  BY DEF SaveAgain, BoxInv
<1>3. box.content \in 1..Side /\ box.row \in Int \X Int /\ box.saves \in Nat
  BY <1>2 DEF Boxes
<1>4. ToStorage(sent, box.content) = box.row
  BY <1>3, SameRowAgain
<1>5. box' = [box EXCEPT !.row = box.row, !.saves = box.saves + 1]
  BY <1>1, <1>4
<1>6. box' \in Boxes
  <2>. DEFINE saves == box.saves + 1
  <2>1. saves \in Nat
    BY <1>3
  <2>2. box' = [box EXCEPT !.row = box.row, !.saves = saves]
    BY <1>5
  <2>. HIDE DEF saves
  <2>3. [box EXCEPT !.row = box.row, !.saves = saves] \in Boxes
    BY <1>2, <1>3, <2>1, WithRow
  <2>. QED BY <2>2, <2>3
<1>7. /\ box'.by = box.by /\ box'.content = box.content /\ box'.left = box.left
      /\ box'.width = box.width /\ box'.row = box.row
  BY <1>2, <1>5 DEF Boxes
<1>. QED BY <1>6, <1>7 DEF BoxInv

LEMMA PredictBoxStep ==
  ASSUME BoxInv, PredictBox
  PROVE  BoxInv'
<1>1. PICK size \in Sizes, center \in 1..Scale, width \in 1..Scale :
        box' = [by |-> "model", content |-> Content(size[1], size[2]),
                left |-> 4 * center - 2 * width, width |-> 4 * width,
                row |-> <<center, width>>, saves |-> 0]
  BY DEF PredictBox
<1>2. Content(size[1], size[2]) \in 1..Side
  BY ContentOfSize
<1>3. /\ 4 * center - 2 * width \in Int /\ 4 * width \in Nat
      /\ center \in Int /\ width \in Int
  BY Geometry
<1>4. box' \in Boxes
  BY <1>1, <1>2, <1>3 DEF Boxes
<1>5. box'.by # "person"
  BY <1>1
<1>. QED BY <1>4, <1>5 DEF BoxInv

LEMMA BoxStep ==
  ASSUME BoxInv, [Next]_deliveryVars
  PROVE  BoxInv'
<1>1. CASE UNCHANGED box
  BY <1>1 DEF BoxInv
<1>2. CASE DrawBox
  BY <1>2, DrawBoxStep
<1>3. CASE SaveAgain
  BY <1>3, SaveAgainStep
<1>4. CASE PredictBox
  BY <1>4, PredictBoxStep
<1>. QED
  BY <1>1, <1>2, <1>3, <1>4
  DEF Next, ProcessVideo, PublishVideo, ProcessImage, PublishDataset, SourceRefused, JobFails,
      Fails, deliveryVars

LEMMA PlaceIsKept ==
  ASSUME BoxInv
  PROVE  BoxesKeepTheirPlace
<1>. SUFFICES ASSUME box.by = "person" PROVE BoxesKeepTheirPlace
  BY DEF BoxesKeepTheirPlace
<1>1. box \in Boxes
  BY DEF BoxInv, NoBox
<1>2. /\ box.content \in 1..Side /\ box.left \in Nat /\ box.width \in Nat
      /\ box.row \in Int \X Int /\ Contained(box.row)
      /\ Drawn(box.content, box.left, box.width, box.row)
  BY <1>1 DEF BoxInv, Boxes
<1>. DEFINE X == FromStorage(box.row, box.content)[1]
            Y == FromStorage(box.row, box.content)[2]
            l == box.left * box.content
            w == box.width * box.content
            c == box.content
<1>3. /\ X \in Int /\ Y \in Int /\ l \in Nat /\ w \in Nat
      /\ 8 * X - (2 * l + w) <= 4 * c + 4 * Side
      /\ 2 * l + w - 8 * X <= 4 * c + 4 * Side
      /\ 4 * Y - w <= 2 * c + 2 * Side
      /\ w - 4 * Y <= 2 * c + 2 * Side
  BY <1>2, ShownIsClose
<1>4. c \in Nat
  BY <1>2, Geometry
<1>5. Rounding = 2 * c + 2 * Side /\ 2 * Rounding = 4 * c + 4 * Side
  BY <1>4, Geometry DEF Rounding
<1>6. \/ MayRefuse(box.row, box.content)
      \/ \E sent \in SentAgain(box.row, box.content) : ~Saveable(sent, box.content)
      => l <= 2 * Rounding \/ 4 * Scale * c - l - w <= 2 * Rounding
  BY <1>2, <1>5, RefusedAtBorder
<1>7. Distance(8 * X, 2 * l + w) <= 2 * Rounding /\ Distance(4 * Y, w) <= Rounding
  <2>. HIDE DEF X, Y, l, w, c
  <2>. QED BY <1>3, <1>4, <1>5, Geometry DEF Distance
<1>. QED BY <1>6, <1>7 DEF BoxesKeepTheirPlace

\* A box that a person has drawn is shown where it was drawn, but for rounding, after any
\* number of saves, and refused only at a border of its image (_box_to_storage(),
\* _box_response(), _training_box_coordinates()).
THEOREM SpecBoxesKeepTheirPlace == Spec => []BoxesKeepTheirPlace
<1>1. Init => BoxInv
  BY DEF Init, BoxInv, NoBox
<1>2. BoxInv /\ [Next]_deliveryVars => BoxInv'
  BY BoxStep
<1>3. BoxInv => BoxesKeepTheirPlace
  BY PlaceIsKept
<1>. QED BY <1>1, <1>2, <1>3, PTL DEF Spec

=============================================================================
