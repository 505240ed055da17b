---------------------------- MODULE FrameSelection ----------------------------
(***************************************************************************)
(* The frames that a worker saves of a video: candidates at a fixed rate,  *)
(* the best of every time window, without the near duplicates of the last  *)
(* frame saved.  Times are whole units.                                    *)
(***************************************************************************)
EXTENDS Integers, FiniteSets, SequencesExt

CONSTANTS
  Looks,          \* what frames look like
  Similar,        \* pairs of looks with a structural similarity of at least 0.95
  Scores,         \* what calculate_fast_quality() gives a frame, 0 for a flat one
  Step,           \* 1 / candidate_fps
  Window,         \* selection_window_seconds
  MaxGap,         \* DEFAULT_MAX_TIME_GAP
  ShortlistSize,  \* DEFAULT_SHORTLIST_SIZE
  MaxCandidates   \* bound: candidates of a video

ASSUME SelectionAssumption ==
  /\ \A a \in Looks : <<a, a>> \in Similar
  /\ \A a, b \in Looks : <<a, b>> \in Similar => <<b, a>> \in Similar
  /\ Scores \subseteq Nat
  /\ {Step, Window, MaxGap, ShortlistSize} \subseteq Nat \ {0} /\ MaxCandidates \in Nat

VARIABLES
  candidates,  \* how many have been extracted
  window,      \* the index of the current window, before the first candidate NoWindow
  shortlist,   \* the candidates of the current window
  last,        \* the last frame saved, if there is one
  frames,      \* the frames saved
  bests        \* the choice of every window so far, and the best score in it

selectionVars == <<candidates, window, shortlist, last, frames, bests>>

NoWindow == -1
SelectionInit ==
  /\ candidates = 0 /\ window = NoWindow /\ shortlist = <<>>
  /\ last = {} /\ frames = <<>> /\ bests = <<>>

-----------------------------------------------------------------------------
(* A window *)

calculate_window_index(time) == time \div Window

\* sorted(reverse=True) leaves equal scores in their order.
Before(i, j) ==
  \/ shortlist[i].score > shortlist[j].score
  \/ shortlist[i].score = shortlist[j].score /\ i < j

Ranked ==
  {j \in DOMAIN shortlist : Cardinality({i \in DOMAIN shortlist : Before(i, j)}) < ShortlistSize}

\* calculate_quality() divides a score by 1 + 0.08 of a motion up to 20, and the first of
\* a shortlist has none.  Winners have the best quality for some motion of the others.
Least(j) == (IF \A k \in Ranked : j <= k THEN 26 ELSE 10) * shortlist[j].score
Beats(i, j) ==
  \/ 26 * shortlist[i].score > Least(j)
  \/ 26 * shortlist[i].score = Least(j) /\ i < j
Winners == {i \in Ranked : \A j \in Ranked \ {i} : Beats(i, j)}

NearDuplicate(frame) ==
  \E l \in last : frame.time - l.time < MaxGap /\ <<l.look, frame.look>> \in Similar

\* Mutation: a duplicate becomes the frame that the next are compared with.
Follows(frame) ==
  /\ frames' = IF NearDuplicate(frame) THEN frames ELSE Append(frames, frame)
  /\ last' = {frame}
SaveCandidate(frame) ==
  IF NearDuplicate(frame)
  THEN UNCHANGED <<frames, last>>
  ELSE frames' = Append(frames, frame) /\ last' = {frame}

TopScore == CHOOSE s \in Scores :
  /\ \E i \in DOMAIN shortlist : shortlist[i].score = s
  /\ \A i \in DOMAIN shortlist : shortlist[i].score <= s

FinishWindow ==
  \E i \in Winners :
    /\ SaveCandidate(shortlist[i])
    /\ bests' = Append(bests, [best |-> shortlist[i], top |-> TopScore])

-----------------------------------------------------------------------------
(* The extractor yields the next candidate, or ends. *)

Extracted == [time : {candidates * Step}, look : Looks, score : Scores]

Extract ==
  /\ candidates < MaxCandidates
  /\ candidates' = candidates + 1
  /\ \E frame \in Extracted :
       LET index == calculate_window_index(frame.time) IN
       /\ window' = index
       /\ IF window \in {NoWindow, index}
          THEN shortlist' = Append(shortlist, frame) /\ UNCHANGED <<last, frames, bests>>
          ELSE shortlist' = <<frame>> /\ FinishWindow

\* flush() empties the selector; a video without candidates has no frames.
EndOfVideo ==
  /\ IF shortlist = <<>> THEN UNCHANGED <<last, frames, bests>> ELSE FinishWindow
  /\ window' = NoWindow /\ shortlist' = <<>>
  /\ UNCHANGED candidates

-----------------------------------------------------------------------------
(* Properties *)

\* Every window of a video is represented: a saved frame, its own or one less than the
\* time gap before, looks like its choice, whose score is within what motion can cost of
\* the best in the window; and no two frames in a row are near duplicates.  A slow change
\* never disappears because each candidate resembles the one before it.
WindowsCovered ==
  /\ \A w \in DOMAIN bests :
       LET choice == bests[w].best IN
       /\ \E i \in DOMAIN frames :
            /\ 0 <= choice.time - frames[i].time /\ choice.time - frames[i].time < MaxGap
            /\ <<frames[i].look, choice.look>> \in Similar
       /\ 26 * choice.score >= 10 * bests[w].top
  /\ \A i \in 1..Len(frames) - 1 :
       \/ frames[i + 1].time - frames[i].time >= MaxGap
       \/ <<frames[i].look, frames[i + 1].look>> \notin Similar

=============================================================================
