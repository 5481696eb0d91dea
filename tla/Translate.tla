----------------------------- MODULE Translate -----------------------------
(***************************************************************************)
(* The translation between the OpenAI surface and Anthropic (translate.js, *)
(* and the translated answers of http.js): the request, the answer in one  *)
(* piece, and the answer as a stream.                                      *)
(*                                                                         *)
(* A stream comes in chunks that know nothing of the frames in them.  The  *)
(* translator keeps what it has of a frame and a few tables between two    *)
(* chunks; what the caller puts together from its frames should be what    *)
(* the answer in one piece would have said.                                *)
(***************************************************************************)
EXTENDS Naturals, FiniteSets, SequencesExt

CONSTANTS Exchanges,  \* a request (messages, tools, whether it is long enough to be cached) and its answer
          NoFinish    \* no finish reason yet

(***************************************************************************)
(* The request: openaiToAnthropic.                                         *)
(* A message is [role, parts, calls, id, cc]: a part is [kind, cc], calls  *)
(* are the ids of its tool calls, id is the call a tool message answers,   *)
(* and cc tells whether it carries a cache_control of the caller's.        *)
(***************************************************************************)
ChatParts == [kind : {"text", "image", "remote"}, cc : BOOLEAN]
ChatMessages == [role : {"system", "user", "assistant", "tool"}, parts : Seq(ChatParts), calls : Seq(Nat), id : Nat,
                 cc : BOOLEAN]
ChatRequests == [msgs : Seq(ChatMessages), tools : Seq(BOOLEAN), none : BOOLEAN, long : BOOLEAN]
Fragments == STRING
ReplyBlocks == [kind : {"text", "thinking", "tool_use"}, id : Nat, text : Seq(Fragments)]
ChatReplies == [blocks : Seq(ReplyBlocks), stop : STRING]

ASSUME TranslateAssumption ==
    /\ Exchanges \subseteq [body : ChatRequests, answer : ChatReplies]
    /\ NoFinish \notin {"stop", "length", "tool_calls"}

Block(kind, id, cc) == [kind |-> kind, id |-> id, cc |-> cc]

\* toBlocks: text keeps its mark, a data: image loses it, a remote image is dropped.
ToBlocks(parts) ==
    FlattenSeq([i \in DOMAIN parts |-> IF parts[i].kind = "remote" THEN <<>>
                                      ELSE <<Block(parts[i].kind, 0, parts[i].cc /\ parts[i].kind = "text")>>])

ToolUses(calls) == [i \in DOMAIN calls |-> Block("tool_use", calls[i], FALSE)]

Turn(role, content) == IF content = <<>> THEN <<>> ELSE <<[role |-> role, content |-> content]>>

\* flushToolResults: consecutive results make one user turn.
Flush(acc) == [acc EXCEPT !.msgs = @ \o Turn("user", acc.pending), !.pending = <<>>]

Take(acc, m) ==
    CASE m.role = "system" ->
           [acc EXCEPT !.system = @ \/ \E i \in DOMAIN m.parts : m.parts[i].kind = "text"]
      [] m.role = "tool" -> [acc EXCEPT !.pending = Append(@, Block("tool_result", m.id, FALSE))]
      [] OTHER ->
           [Flush(acc) EXCEPT !.msgs = @ \o Turn(m.role, ToBlocks(m.parts) \o ToolUses(m.calls))]

Untaken == [system |-> FALSE, msgs |-> <<>>, pending |-> <<>>]
TakenAll(msgs) ==
    LET taken[n \in 0..Len(msgs)] == IF n = 0 THEN Untaken ELSE Take(taken[n - 1], msgs[n])
    IN  taken[Len(msgs)]
Taken(b) == Flush(TakenAll(b.msgs))

\* hasCacheControl: a mark in any of the positions that are legal for the caller.
CallerMarks(b) ==
    \/ \E i \in DOMAIN b.tools : b.tools[i]
    \/ \E i \in DOMAIN b.msgs : b.msgs[i].cc \/ \E k \in DOMAIN b.msgs[i].parts : b.msgs[i].parts[k].cc

\* Defect: the tail of every message, from the last one back.
DefectRolling(n) == {n, n - 1} \ {0}

\* The last turn, and the one two before it.
Rolling(n) == {n, n - 2}

\* markCacheBreakpoints: the last tool, the system prompt, and the last block of the rolling turns once there
\* is history.
Breakpoints(tools, taken) ==
    LET n == Len(taken.msgs) IN
    (IF tools = <<>> THEN {} ELSE {<<"tools", Len(tools)>>})
      \cup (IF taken.system THEN {<<"system", 1>>} ELSE {})
      \cup (IF n < 3 THEN {} ELSE {<<"message", i>> : i \in Rolling(n)})

\* The marks of the caller that the rebuilt request still carries.
Carried(tools, taken) ==
    {<<"tools", i>> : i \in {k \in DOMAIN tools : tools[k]}}
      \cup {<<"message", i>> : i \in {k \in DOMAIN taken.msgs :
                                        \E j \in DOMAIN taken.msgs[k].content : taken.msgs[k].content[j].cc}}

\* openaiToAnthropic.  Under tool_choice "none" no tools are sent.
ToAnthropic(b) ==
    LET taken == Taken(b)
        tools == IF b.none THEN <<>> ELSE b.tools
    IN  [tools |-> tools, system |-> taken.system, msgs |-> taken.msgs,
         marks |-> IF CallerMarks(b) \/ ~b.long THEN Carried(tools, taken) ELSE Breakpoints(tools, taken)]

(***************************************************************************)
(* The answer in one piece: anthropicToOpenai.                             *)
(* A block is [kind, id, text]: text is the sequence of its fragments.     *)
(***************************************************************************)
StopMap == [end_turn |-> "stop", stop_sequence |-> "stop", max_tokens |-> "length", tool_use |-> "tool_calls"]

Finish(stop, calls) ==
    IF stop \in DOMAIN StopMap THEN StopMap[stop] ELSE IF calls THEN "tool_calls" ELSE "stop"

TextOf(blocks) == FlattenSeq([i \in DOMAIN blocks |-> IF blocks[i].kind = "text" THEN blocks[i].text ELSE <<>>])
CallsOf(blocks) ==
    FlattenSeq([i \in DOMAIN blocks |-> IF blocks[i].kind # "tool_use" THEN <<>>
                                       ELSE <<[id |-> blocks[i].id, args |-> blocks[i].text]>>])
ToOpenai(a) ==
    [text |-> TextOf(a.blocks), calls |-> CallsOf(a.blocks), finish |-> Finish(a.stop, CallsOf(a.blocks) # <<>>)]

(***************************************************************************)
(* The answer as a stream.                                                 *)
(***************************************************************************)
VARIABLES
    body,      \* the request
    answer,    \* what the upstream says
    at,        \* what it sends next: a block and a part of it
    half,      \* the first part of the frame the translator has not seen the end of
    tables,    \* createSseTranslator: the tool index of each block, and the finish reason
    frames,    \* what the caller has put together of the frames
    ended,     \* whether the response was ended and the row written
    garbled    \* a chunk ended inside a character (history)

translateVars == <<body, answer, at, half, tables, frames, ended, garbled>>

\* The events of an answer: message_start, each block with its start and its fragments, the reason, message_stop.
\* at.part is 0 where a block starts.
LastBlock == Len(answer.blocks)
Coming ==
    IF at.block \in 1..LastBlock
    THEN LET k == answer.blocks[at.block]
         IN  [type |-> IF at.part = 0 THEN "start" ELSE "delta", index |-> at.block, kind |-> k.kind, id |-> k.id,
              text |-> IF at.part = 0 THEN <<>> ELSE <<k.text[at.part]>>]
    ELSE [type |-> IF at.block = 0 THEN "message_start" ELSE IF at.block = LastBlock + 1 THEN "message_delta"
                   ELSE "message_stop",
          index |-> at.block, kind |-> answer.stop, id |-> 0, text |-> <<>>]
Moved ==
    IF at.block \in 1..LastBlock /\ at.part < Len(answer.blocks[at.block].text) THEN [at EXCEPT !.part = @ + 1]
    ELSE [block |-> at.block + 1, part |-> 0]
AllSaid == [block |-> LastBlock + 3, part |-> 0]

NoFrame == <<>>
Silence == [roles |-> 0, text |-> <<>>, calls |-> <<>>, finish |-> NoFinish, done |-> FALSE]

TranslateStart(x) ==
    /\ body = x.body /\ answer = x.answer
    /\ at = [block |-> 0, part |-> 0] /\ half = NoFrame
    /\ tables = [toolOf |-> <<>>, finish |-> NoFinish]
    /\ frames = Silence
    /\ ended = "none" /\ garbled = FALSE

TranslateInit == \E x \in Exchanges : TranslateStart(x)

\* The tool index of a block: the blocks that announced a tool are kept in the order they did.
ToolIndex(i) == SelectInSeq(tables.toolOf, LAMBDA k : k = i)

\* event(): one event of the upstream, and the frames it becomes.
Announce(e) ==
    /\ e.type = "message_start"
    /\ frames' = [frames EXCEPT !.roles = @ + 1]
    /\ UNCHANGED tables

BlockStarts(e) ==
    /\ e.type = "start"
    /\ IF e.kind = "tool_use"
       THEN /\ tables' = [tables EXCEPT !.toolOf = Append(@, e.index)]
            /\ frames' = [frames EXCEPT !.calls = Append(@, [id |-> e.id, args |-> <<>>])]
       ELSE UNCHANGED <<tables, frames>>

\* Text is passed on, fragments of arguments go to the index of their block, thinking is suppressed.
Fragment(e, text) ==
    /\ e.type = "delta"
    /\ frames' = IF e.kind = "text" THEN [frames EXCEPT !.text = @ \o text]
                ELSE IF e.kind = "tool_use" /\ ToolIndex(e.index) # 0
                THEN [frames EXCEPT !.calls[ToolIndex(e.index)].args = @ \o text]
                ELSE frames
    /\ UNCHANGED tables

StopReason(e) ==
    /\ e.type = "message_delta"
    /\ tables' = IF e.kind = "absent" THEN tables
                 ELSE [tables EXCEPT !.finish = Finish(e.kind, tables.toolOf # <<>>)]
    /\ UNCHANGED frames

LastFrames(e) ==
    /\ e.type = "message_stop"
    /\ frames' = [frames EXCEPT !.done = TRUE, !.finish = IF tables.finish = NoFinish
                                                          THEN Finish("absent", tables.toolOf # <<>>)
                                                          ELSE tables.finish]
    /\ UNCHANGED tables

Emit(e, text) == Announce(e) \/ BlockStarts(e) \/ Fragment(e, text) \/ StopReason(e) \/ LastFrames(e)

\* push(): a chunk that ends where a frame does.
WholeFrame ==
    /\ ended = "none" /\ at # AllSaid /\ half = NoFrame
    /\ Emit(Coming, Coming.text)
    /\ at' = Moved
    /\ UNCHANGED <<body, answer, half, ended, garbled>>

\* A chunk that ends inside a frame: it is kept.  Each chunk is decoded by itself, so a character that was
\* cut is lost.
FirstPart(cut) ==
    /\ ended = "none" /\ at # AllSaid /\ half = NoFrame
    /\ cut => Coming.text # <<>>
    /\ half' = <<[Coming EXCEPT !.text = IF cut THEN <<"?">> ELSE @]>>
    /\ garbled' = (garbled \/ cut)
    /\ UNCHANGED <<body, answer, at, tables, frames, ended>>

\* Defect: the buffer starts anew with each chunk, and what was kept is not JSON by itself.
DefectSecondPart ==
    /\ ended = "none" /\ half # NoFrame
    /\ UNCHANGED <<tables, frames>>
    /\ at' = Moved /\ half' = NoFrame
    /\ UNCHANGED <<body, answer, ended, garbled>>

SecondPart ==
    /\ ended = "none" /\ half # NoFrame
    /\ Emit(half[1], half[1].text)
    /\ at' = Moved /\ half' = NoFrame
    /\ UNCHANGED <<body, answer, ended, garbled>>

\* An error event, or an upstream that closes early: what follows is missing, and nothing says so.
CutShort ==
    /\ ended = "none" /\ at.block < LastBlock + 2 /\ half = NoFrame
    /\ at' = AllSaid
    /\ UNCHANGED <<body, answer, half, tables, frames, ended, garbled>>

\* The upstream's body ends: the response is ended, and the row is written.
StreamOver ==
    /\ ended = "none" /\ at = AllSaid /\ half = NoFrame
    /\ ended' = "written"
    /\ UNCHANGED <<body, answer, at, half, tables, frames, garbled>>

\* The upstream's body breaks: the loop throws out of proxy, and the response stays open.
StreamThrows ==
    /\ ended = "none" /\ at # AllSaid
    /\ ended' = "never"
    /\ UNCHANGED <<body, answer, at, half, tables, frames, garbled>>

TranslateNext ==
    \/ WholeFrame \/ SecondPart \/ CutShort \/ StreamOver \/ StreamThrows
    \/ \E cut \in BOOLEAN : FirstPart(cut)

TranslateSpec == TranslateInit /\ [][TranslateNext]_translateVars

TranslateTypeOK ==
    /\ [body |-> body, answer |-> answer] \in Exchanges
    /\ ended \in {"none", "written", "never"} /\ Len(half) <= 1
    /\ frames.roles \in 0..1 /\ Len(frames.calls) = Len(tables.toolOf)

(***************************************************************************)
(* Properties.                                                             *)
(***************************************************************************)
\* A stream says what the answer in one piece would have said: once its last frame is out, the caller has the
\* same text, the same calls with the same arguments, and the same reason, however the bytes were cut; and as
\* long as that frame is missing it has no reason at all.
StreamSaysTheSame ==
    /\ frames.done /\ ~garbled =>
         [text |-> frames.text, calls |-> frames.calls, finish |-> frames.finish] = ToOpenai(answer)
    /\ frames.done <=> frames.finish # NoFinish

\* What the tools answer to the i-th message: the results before anybody speaks again.
Speaks(m) == m.role \in {"user", "assistant"}
ResultsOf(msgs, i) ==
    {msgs[j].id : j \in {k \in DOMAIN msgs : k > i /\ msgs[k].role = "tool"
                                              /\ \A h \in i..k : h > i => ~Speaks(msgs[h])}}

\* Only an assistant calls, and each call is answered before anybody speaks again.
Legal(msgs) ==
    \A i \in DOMAIN msgs :
        /\ msgs[i].role # "assistant" => msgs[i].calls = <<>>
        /\ Speaks(msgs[i]) => ToSet(msgs[i].calls) = ResultsOf(msgs, i)

\* What a turn asks of the tools, and what it answers for them.
Uses(turn) == {turn.content[k].id : k \in {j \in DOMAIN turn.content : turn.content[j].kind = "tool_use"}}
Results(turn) == {turn.content[k].id : k \in {j \in DOMAIN turn.content : turn.content[j].kind = "tool_result"}}

\* Each tool result of a legal conversation comes in the user turn right after the turn that asked for it, and
\* together with all the others of that turn; Anthropic refuses anything else.
Together(out) ==
    \A i \in DOMAIN out : Uses(out[i]) # {} =>
        i < Len(out) /\ out[i + 1].role = "user" /\ Results(out[i + 1]) = Uses(out[i])
ResultsTogether == Legal(body.msgs) => Together(ToAnthropic(body).msgs)

\* The conversation a caller sends next: what was sent, an answer, and what the user says to it.
Longer(b) ==
    LET said(r) == [role |-> r, parts |-> <<[kind |-> "text", cc |-> FALSE]>>, calls |-> <<>>, id |-> 0, cc |-> FALSE]
    IN  [b EXCEPT !.msgs = @ \o <<said("assistant"), said("user")>>, !.long = TRUE]

\* At most four breakpoints are ever set, and the next request of a conversation that has history puts one
\* where this one had its last: its prefix is found in the cache.
NextTurnHits ==
    LET now == ToAnthropic(body)
        next == ToAnthropic(Longer(body))
    IN  (body.long /\ ~CallerMarks(body)) =>
            /\ Cardinality(now.marks) <= 4
            /\ Len(now.msgs) >= 3 => <<"message", Len(now.msgs)>> \in now.marks \cap next.marks

TranslateInv == TranslateTypeOK /\ StreamSaysTheSame /\ ResultsTogether /\ NextTurnHits

\* translate.js:73-78: a mark of the caller's rides along, so that leaving the marking to him never sends a
\* request that has none at all.
MarksRideAlong == CallerMarks(body) => ToAnthropic(body).marks # {}
=============================================================================
