---------------------------- MODULE AnswerStream ----------------------------
(***************************************************************************)
(* One answer on its way from the language model to the student: the call  *)
(* with its prompt cache and retries (src/adapters/llm/gemini.py), the     *)
(* sentinel filter and the interceptors of _process_turn                   *)
(* (src/api/session.py, src/policy/interceptors/), and the speech cut out  *)
(* of the text while it passes (src/api/audio_stream.py,                   *)
(* src/services/tts.py).  Storing the answer, barge-in and cancellation    *)
(* are in ChatTurn.                                                        *)
(*                                                                         *)
(* A text is a sequence of units: a word, a blank, the end of an open      *)
(* question, the end of any other sentence, or half a closure sentinel.    *)
(***************************************************************************)
EXTENDS Integers, FiniteSets, Sequences, SequencesExt

CONSTANTS
  MaxLength,    \* bound: units of an answer before what ends it
  MaxChunk      \* bound: units the model sends at once

ASSUME BoundsAssumption == MaxLength \in Nat /\ MaxChunk \in Nat \ {0}

Word == "word"
Blank == "blank"
Open == "open"
Stop == "stop"
Terminator == {Open, Stop}
SENTINEL == <<"left", "right">>
FAREWELL == <<"bye", Stop>>
\* the planned question, scored open-ended or not: the bank has both
Question == {<<"q", Open>>, <<"q", Stop>>}

\* what the model may say: a text, and behind it nothing, blanks, or the sentinel on its own, before a blank or before more text
Answer ==
  {text \o end : text \in BoundedSeq({Word, Blank, Open, Stop}, MaxLength),
                 end \in {<<>>, <<Blank, Blank, Blank>>, SENTINEL, SENTINEL \o <<Blank>>, SENTINEL \o <<Word, Stop>>}}

MAX_ATTEMPTS == 3
SLACK == 1                          \* 8 characters in the code
TAIL_SIZE_TIGHT == Len(SENTINEL)    \* slip: no slack for what follows the sentinel
TAIL_SIZE == Len(SENTINEL) + SLACK
Voice == {"es", "en"}
None == "none"

VARIABLES
  pc,        \* where the turn is
  entry,     \* the cache entry of the prompt, and whether the provider still has it: shared by all turns
  call,      \* the call: handle of the cache, attempt, whether the cache was dropped
  eligible,  \* decision.closure_eligible
  answer,    \* what the model says in this call
  got,       \* units received
  ended,     \* the model's stream is over
  tail,      \* withheld by _strip_sentinel_tail
  captured,  \* a sentinel was taken out
  pending,   \* text about to be sent
  sent,      \* text sent
  wrap,      \* audio_stream.wrap: buffer, sentences to speak, number, voice
  voice,     \* self._voice, the session's
  lastSeq,   \* last_audio_seq
  (* history, read by the properties only *)
  spoken,    \* utterances, synthesized or not
  checked,   \* what the interceptors saw
  faulted    \* the call failed otherwise than by a forgotten cache

callVars == <<entry, call, eligible>>
textVars == <<answer, got, ended, tail, captured, pending, sent>>
speechVars == <<wrap, voice, lastSeq, spoken>>
vars == <<pc, callVars, textVars, speechVars, checked, faulted>>

Over == {"done", "failed", "halted"}

-----------------------------------------------------------------------------
(* Text *)
Words(s) == FlattenSeq([i \in DOMAIN s |-> IF s[i] = Blank THEN <<>> ELSE <<s[i]>>])
Solid(s) == {i \in DOMAIN s : s[i] # Blank}
RStrip(s) == SubSeq(s, 1, Max(Solid(s) \cup {0}))
Strip(s) == IF Solid(s) = {} THEN <<>> ELSE SubSeq(s, Min(Solid(s)), Max(Solid(s)))
HasSentinel(s) == SENTINEL \in SubSeqs(s)
WithoutSentinel(s) == ReplaceFirstSubSeq(<<>>, SENTINEL, s)

(* _TERMINATOR_RE: a terminator before a blank or at the end of the buffer *)
Ends(s) == {i \in DOMAIN s : s[i] \in Terminator /\ (i = Len(s) \/ s[i + 1] = Blank)}

(* split_sentences: the stripped pieces behind one terminator and up to the next cut, but for empty ones *)
LastEnd(s, k) == Max({i \in Ends(s) : i <= k} \cup {0})
Piece(s, i) == Strip(SubSeq(s, LastEnd(s, i - 1) + 1, i))
Sentences(s, cuts) ==
  FlattenSeq([i \in DOMAIN s |-> IF i \in cuts /\ Piece(s, i) # <<>> THEN <<Piece(s, i)>> ELSE <<>>])

(* _extract_complete_sentences: the sentences up to the last terminator, where the last of them ends *)
SplitPoint(s) == LastEnd(s, Len(s))

CompleteEager(s) == IF Ends(s) = {} THEN <<>> ELSE Sentences(s, Ends(s) \cup {Len(s)})  \* slip: the unfinished sentence, too
Complete(s) == Sentences(s, Ends(s))
Remainder(s) == SubSeq(s, SplitPoint(s) + 1, Len(s))

-----------------------------------------------------------------------------
(* The interceptors *)
HasOpenQuestion(s) == Contains(s, Open)
Appended(s, question) == RStrip(s) \o <<Blank, Blank>> \o question

\* blunt: opens with "the answer is"; closed: has a question mark that is not of an open question;
\* wordy: eight words before the first question mark of what is examined
Manner == [blunt : BOOLEAN, closed : BOOLEAN, wordy : BOOLEAN]

(* DirectAnswerDetectorInterceptor.process *)
DirectAnswer(s, question, manner) ==
  IF s = <<>> THEN question
  ELSE IF HasOpenQuestion(s) /\ ~manner.blunt THEN s
  ELSE Appended(s, question)

(* RhetoricalQuestionDetectorInterceptor.process, on the answer or on what the other made of it *)
Rhetorical(s, question, manner, asks) ==
  IF s # <<>> /\ ~HasOpenQuestion(s) /\ manner.wordy /\ (manner.closed \/ asks) THEN Appended(s, question) ELSE s

(* Slip: the last interceptor says whether there is anything to append *)
CheckOutputLast(s, guard, question, manner) ==
  LET first == IF guard = "strict" THEN DirectAnswer(s, question, manner) ELSE s
      second == Rhetorical(first, question, manner, first # s)
  IN IF second = first THEN s ELSE second

(* PolicyEngine.check_output *)
CheckOutput(s, guard, question, manner) ==
  LET first == IF guard = "strict" THEN DirectAnswer(s, question, manner) ELSE s
  IN Rhetorical(first, question, manner, first # s)

-----------------------------------------------------------------------------
(***************************************************************************)
(* The call.  Other turns with the same prompt create and drop the entry   *)
(* between any two awaits of this one, it expires and is evicted here, and *)
(* the provider may have forgotten what is still held here.                *)
(***************************************************************************)
Others ==
  /\ pc \in {"cache", "request"}
  /\ \/ entry = "none" /\ entry' = "live" /\ UNCHANGED call
     \/ entry # "none" /\ entry' = "none" /\ UNCHANGED call
     \/ entry = "live" /\ entry' = "dead" /\ UNCHANGED call
     \/ call.handle = "live" /\ call' = [call EXCEPT !.handle = "dead"] /\ UNCHANGED entry
  /\ UNCHANGED <<pc, eligible, textVars, speechVars, checked, faulted>>

(* _get_or_create_turn_cache: the lookup is repeated under the lock; a cache that cannot be had is done without *)
GetCache ==
  /\ pc = "cache"
  /\ \/ entry # "none" /\ call' = [call EXCEPT !.handle = entry] /\ UNCHANGED entry
     \/ entry = "none" /\ entry' = "live" /\ call' = [call EXCEPT !.handle = "live"]
     \/ entry = "none" /\ UNCHANGED <<entry, call>>
  /\ pc' = "request"
  /\ UNCHANGED <<eligible, textVars, speechVars, checked, faulted>>

(* The first chunk is there, or the end of an empty stream *)
OpenStream ==
  /\ pc = "request" /\ call.handle # "dead"
  /\ answer' \in Answer
  /\ got' = 0
  /\ pc' = "stream"
  /\ call' = [call EXCEPT !.handle = "inline", !.attempt = 0, !.dropped = FALSE]  \* not read any more
  /\ entry' = "none" /\ faulted' = FALSE
  /\ UNCHANGED <<eligible, ended, tail, captured, pending, sent, speechVars, checked>>

Raise == pc' = "failed" /\ UNCHANGED <<entry, call>>

(* Slip: the attempts start over after the last *)
BusyForEver ==
  /\ pc = "request" /\ faulted' = TRUE
  /\ call' = [call EXCEPT !.attempt = (@ + 1) % MAX_ATTEMPTS]
  /\ UNCHANGED <<pc, entry, eligible, textVars, speechVars, checked>>

(* Slip: the last attempt is not told from the others *)
BusyAgain ==
  /\ pc = "request" /\ faulted' = TRUE
  /\ IF call.attempt < MAX_ATTEMPTS
     THEN call' = [call EXCEPT !.attempt = @ + 1] /\ UNCHANGED <<pc, entry>>
     ELSE Raise
  /\ UNCHANGED <<eligible, textVars, speechVars, checked>>

(* A 503 or 429: try again with the same call *)
Busy ==
  /\ pc = "request" /\ faulted' = TRUE
  /\ IF call.attempt < MAX_ATTEMPTS - 1
     THEN call' = [call EXCEPT !.attempt = @ + 1] /\ UNCHANGED <<pc, entry>>
     ELSE Raise
  /\ UNCHANGED <<eligible, textVars, speechVars, checked>>

(* Any other ServerError *)
ServerError ==
  /\ pc = "request" /\ faulted' = TRUE
  /\ Raise
  /\ UNCHANGED <<eligible, textVars, speechVars, checked>>

(* Anything else, a timeout included: once, drop the cache and put the prompt into the call, whose configuration is built anew *)
OtherError ==
  /\ pc = "request" /\ faulted' = (faulted \/ call.handle # "dead")
  /\ IF call.handle # "inline" /\ ~call.dropped /\ call.attempt < MAX_ATTEMPTS - 1
     THEN /\ call' = [handle |-> "inline", attempt |-> call.attempt + 1, dropped |-> TRUE]
          /\ entry' = "none"
          /\ UNCHANGED pc
     ELSE Raise
  /\ UNCHANGED <<eligible, textVars, speechVars, checked>>

(* Slip: an error between chunks is retried like one before the first *)
StreamErrorRetried ==
  /\ pc = "stream" /\ ~faulted
  /\ faulted' = TRUE /\ got' = 0
  /\ UNCHANGED <<pc, callVars, answer, ended, tail, captured, pending, sent, speechVars, checked>>

(* An error after the first chunk ends the turn with an error frame; what was withheld is lost *)
StreamError ==
  /\ pc = "stream" /\ faulted' = TRUE
  /\ pc' = "failed"
  /\ UNCHANGED <<callVars, textVars, speechVars, checked>>

-----------------------------------------------------------------------------
(* A chunk is kept whole in a turn that may close, and passes _strip_sentinel_tail in any other *)
Receive(n) ==
  /\ pc = "stream" /\ ~ended /\ got + n <= Len(answer)
  /\ got' = got + n
  /\ LET held == tail \o SubSeq(answer, got + 1, got + n)
         out == IF eligible \/ Len(held) <= TAIL_SIZE THEN 0 ELSE Len(held) - TAIL_SIZE
     IN /\ tail' = SubSeq(held, out + 1, Len(held))
        /\ pending' = SubSeq(held, 1, out)
        /\ pc' = IF out = 0 THEN "stream" ELSE "emit"
  /\ UNCHANGED <<callVars, answer, ended, captured, sent, speechVars, checked, faulted>>

(* The stream is over: what was kept is sent, or the farewell instead *)
StreamEnds ==
  /\ pc = "stream" /\ got = Len(answer)
  /\ ended' = TRUE
  /\ captured' = HasSentinel(tail)
  /\ tail' = <<>>
  /\ pending' = IF ~captured' THEN tail ELSE IF eligible THEN <<>> ELSE RStrip(WithoutSentinel(tail))
  /\ pc' = IF eligible THEN IF captured' THEN "farewell" ELSE "emit"
           ELSE IF pending' = <<>> THEN "flush" ELSE "emit"
  /\ UNCHANGED <<callVars, answer, got, sent, speechVars, checked, faulted>>

(* The chunk frame; wrap looks for sentences in what has passed *)
Emit ==
  /\ pc = "emit"
  /\ sent' = sent \o pending
  /\ pending' = <<>>
  /\ wrap' = [wrap EXCEPT !.buffer = Remainder(@ \o pending), !.queue = Complete(wrap.buffer \o pending)]
  /\ pc' = IF wrap'.queue # <<>> THEN "speak" ELSE IF ended THEN "flush" ELSE "stream"
  /\ UNCHANGED <<callVars, answer, got, ended, tail, captured, voice, lastSeq, spoken, checked, faulted>>

(* synthesize: two attempts, then silence.  The voice is the given one, or that of the language of the text. *)
Synthesize(kind, text, number, given) ==
  \E ok \in BOOLEAN, v \in IF given = None THEN Voice ELSE {given} :
    spoken' = Append(spoken, [kind |-> kind, text |-> text, number |-> number, voice |-> v, ok |-> ok])

(* An audio frame of the answer locks the session's voice *)
Heard ==
  /\ voice' = IF voice = None /\ Last(spoken').ok THEN Last(spoken').voice ELSE voice
  /\ lastSeq' = IF Last(spoken').ok THEN Last(spoken').number ELSE lastSeq

(* The next sentence; its number is used up even when it stays silent *)
Speak ==
  /\ pc = "speak"
  /\ Synthesize("answer", Head(wrap.queue), wrap.seq, wrap.voice)
  /\ Heard
  /\ wrap' = [wrap EXCEPT !.queue = Tail(@), !.seq = @ + 1, !.voice = Last(spoken').voice]
  /\ pc' = IF wrap'.queue # <<>> THEN "speak" ELSE IF ended THEN "flush" ELSE "stream"
  /\ UNCHANGED <<callVars, textVars, checked, faulted>>

(* What is left without a terminator is one more sentence *)
Flush ==
  /\ pc = "flush"
  /\ IF Strip(wrap.buffer) = <<>>
     THEN UNCHANGED <<wrap, voice, lastSeq, spoken>>
     ELSE /\ Synthesize("answer", Strip(wrap.buffer), wrap.seq, wrap.voice)
          /\ Heard
          /\ wrap' = [wrap EXCEPT !.buffer = <<>>, !.voice = Last(spoken').voice]
  /\ pc' = "check"
  /\ UNCHANGED <<callVars, textVars, checked, faulted>>

(* The client is gone: every send of the answer but the farewell and the correction halts the turn *)
Halt ==
  /\ pc \in {"emit", "speak", "flush"} /\ (pc = "flush" => Strip(wrap.buffer) # <<>>)
  /\ pc' = "halted"
  /\ UNCHANGED <<callVars, textVars, speechVars, checked, faulted>>

(* The deterministic goodbye in place of the answer *)
Farewell ==
  /\ pc = "farewell"
  /\ sent' = FAREWELL
  /\ Synthesize("farewell", FAREWELL, lastSeq + 1, voice)
  /\ voice' = IF voice = None THEN Last(spoken').voice ELSE voice
  /\ pc' = "done"
  /\ UNCHANGED <<callVars, answer, got, ended, tail, captured, pending, wrap, lastSeq, checked, faulted>>

(* Step 4, for a policy that was evaluated and an answer without sentinel: what check_output made longer is sent *)
Check ==
  /\ pc = "check"
  /\ \E guard \in {"none", "strict", "relaxed"}, question \in Question, manner \in Manner :
       /\ eligible => guard # "none"
       /\ manner.blunt => sent # <<>>
       /\ manner.closed => Contains(sent, Stop)
       /\ checked' = [guard |-> guard, question |-> question, blunt |-> manner.blunt, text |-> sent]
       /\ LET final == IF guard = "none" \/ captured THEN sent ELSE CheckOutput(sent, guard, question, manner)
          IN /\ pending' = SubSeq(final, Len(sent) + 1, Len(final))
             /\ pc' = IF final = sent THEN "done" ELSE "correct"
  /\ UNCHANGED <<callVars, answer, got, ended, tail, captured, sent, speechVars, faulted>>

(* The correction, sent and spoken whether or not the client is there *)
Correct ==
  /\ pc = "correct"
  /\ sent' = sent \o pending /\ pending' = <<>>
  /\ Synthesize("question", pending, lastSeq + 1, voice)
  /\ voice' = IF voice = None THEN Last(spoken').voice ELSE voice
  /\ pc' = "done"
  /\ UNCHANGED <<callVars, answer, got, ended, tail, captured, wrap, lastSeq, checked, faulted>>

-----------------------------------------------------------------------------
NotChecked == [guard |-> "none", question |-> <<>>, blunt |-> FALSE, text |-> <<>>]

Init ==
  /\ pc = "cache"
  /\ entry \in {"none", "live", "dead"}
  /\ eligible \in BOOLEAN
  /\ call = [handle |-> "inline", attempt |-> 0, dropped |-> FALSE]
  /\ answer = <<>> /\ got = 0 /\ ended = FALSE
  /\ tail = <<>> /\ captured = FALSE /\ pending = <<>> /\ sent = <<>>
  /\ voice \in {None, "es"}
  /\ wrap = [buffer |-> <<>>, queue |-> <<>>, seq |-> 0, voice |-> voice]
  /\ lastSeq = -1
  /\ spoken = <<>> /\ checked = NotChecked /\ faulted = FALSE

CallStep == GetCache \/ OpenStream \/ Busy \/ ServerError \/ OtherError \/ StreamError
TextStep == (\E n \in 1 .. MaxChunk : Receive(n)) \/ StreamEnds \/ Emit \/ Check
SpeechStep == Speak \/ Flush \/ Farewell \/ Correct

TurnStep == CallStep \/ TextStep \/ SpeechStep \/ Halt

Next == TurnStep \/ Others

Spec == Init /\ [][Next]_vars

(***************************************************************************)
(* A started request, stream and synthesis come to something: the code     *)
(* bounds the first and the last with timeouts, the stream with none.      *)
(***************************************************************************)
FairSpec == Spec /\ WF_vars(TurnStep)

-----------------------------------------------------------------------------
TypeOK ==
  /\ pc \in {"cache", "request", "stream", "emit", "speak", "flush", "farewell", "check", "correct"} \cup Over
  /\ entry \in {"none", "live", "dead"}
  /\ call.handle \in {"inline", "live", "dead"} /\ call.attempt \in 0 .. MAX_ATTEMPTS - 1
  /\ call.dropped \in BOOLEAN
  /\ eligible \in BOOLEAN /\ ended \in BOOLEAN /\ captured \in BOOLEAN /\ faulted \in BOOLEAN
  /\ got \in 0 .. Len(answer)
  /\ ~eligible => Len(tail) <= TAIL_SIZE
  /\ voice \in Voice \cup {None} /\ wrap.voice \in Voice \cup {None}
  /\ wrap.seq \in Nat /\ lastSeq \in -1 .. wrap.seq

SpokenText == FlattenSeq([i \in DOMAIN spoken |-> IF spoken[i].kind = "answer" THEN spoken[i].text ELSE <<>>])

(***************************************************************************)
(* What the student reads is a beginning of one answer of the model, and   *)
(* in the end that answer without its sentinel: no retry mixes two         *)
(* answers, and the withheld tail comes out ("a later error would have to  *)
(* resend", generate_answer_stream).                                       *)
(***************************************************************************)
TextFaithful ==
  /\ pc \in {"request", "stream", "emit", "speak"} /\ ~ended => IsPrefix(sent, answer)
  /\ pc = "check" => IF captured THEN RStrip(sent) = RStrip(WithoutSentinel(answer)) ELSE sent = answer

(***************************************************************************)
(* However the model cuts its chunks, no half of the sentinel reaches the  *)
(* student: in a turn that may close wherever it stands, in another when   *)
(* it ends the answer, give or take the slack (_strip_sentinel_tail).      *)
(***************************************************************************)
SentinelHidden ==
  (eligible \/ HasSentinel(SubSeq(answer, Max({0, Len(answer) - Len(SENTINEL) - SLACK}) + 1, Len(answer))))
    => \A i \in DOMAIN SENTINEL : ~Contains(sent, SENTINEL[i])

(***************************************************************************)
(* All that is heard in a turn, the correction and the goodbye included,   *)
(* is in one voice, the session's once it has one (session-level voice     *)
(* lock).                                                                  *)
(***************************************************************************)
OneVoice == \A i \in {k \in DOMAIN spoken : spoken[k].ok} : voice = spoken[i].voice

(***************************************************************************)
(* The speech says the text: what was uttered, waits to be or is buffered  *)
(* is what was sent, word by word, and nothing is left when the            *)
(* interceptors run (wrap); and it says it in one voice.                   *)
(***************************************************************************)
SpeechIsText ==
  /\ pc \in {"stream", "emit", "speak", "flush", "check"} =>
       Words(SpokenText \o FlattenSeq(wrap.queue) \o wrap.buffer) = Words(sent)
  /\ pc = "check" => Words(SpokenText) = Words(sent)
  /\ OneVoice

(***************************************************************************)
(* While the guardrail is up a turn that is done has left the student with *)
(* a question: an open one of the model, or the planned one, whole, unless *)
(* the answer ended in more than two blanks (Step 4 cuts the correction    *)
(* out of the new text at the length of the old).  And with one only: the  *)
(* two interceptors do not both append the planned question, unless it is  *)
(* itself one that can be answered with yes or no.                         *)
(***************************************************************************)
AlwaysAsks ==
  /\ pc = "done" /\ checked.guard = "strict" /\ ~captured
       /\ Len(checked.text) - Len(RStrip(checked.text)) <= 2
     => \/ HasOpenQuestion(checked.text) /\ ~checked.blunt
        \/ IsSuffix(checked.question, sent)
  /\ Contains(checked.question, Open) => Cardinality({i \in DOMAIN sent : sent[i] = "q"}) <= 1

(***************************************************************************)
(* Every turn ends, done, failed or halted, however often the provider is  *)
(* busy; and it does not fail for a cache the provider has forgotten alone *)
(* (generate_answer_stream: "drop it once and fall back to an              *)
(* inline-prefix retry").                                                  *)
(***************************************************************************)
TurnEnds == <>(pc \in Over /\ (pc = "failed" => faulted))

=============================================================================
