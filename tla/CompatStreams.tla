---------------------------- MODULE CompatStreams ----------------------------
(***************************************************************************)
(* The three bridges that rewrite a provider's event stream for a client   *)
(* of another protocol while it is being read (gateway/api/compat.go):     *)
(*   "anthropic"   OpenAI chat chunks for an Anthropic client              *)
(*   "openai"      Anthropic events for an OpenAI client                   *)
(*   "responses"   OpenAI chat chunks for a client of the Responses API    *)
(* Both kinds of provider are read in one alphabet: start, text, tool (with *)
(* its id and name in the first event), usage, finish, error, done.  An    *)
(* event that carries several of them is several events.  A piece of text  *)
(* or of a tool's arguments is a number, 0 for none.                       *)
(***************************************************************************)
EXTENDS Integers, Sequences, FiniteSets, FiniteSetsExt, SequencesExt

CONSTANTS
  Indexes,     \* the indexes a provider gives its tool calls
  Custom,      \* those whose tool the client declared as a custom one
  MaxEvents    \* bound: events of a stream

VARIABLES
  bridge,      \* which of the three
  read,        \* the events of the provider, so far
  state,       \* the bridge's own
  written,     \* what the client was sent
  over         \* "no", "eof" or "broken"

streamVars == <<bridge, read, state, written, over>>

ASSUME StreamAssumption == Indexes \subseteq Nat /\ Custom \subseteq Indexes /\ MaxEvents \in Nat

Text == -1
Items == Indexes \cup {Text}
Reasons == {"stop", "length", "tool_calls"}

(* started: the message was announced.  ended: its last mark was written.     *)
(* place: where an item was put; an item is a tool's index or Text.  closed  *)
(* and kept are of the Responses bridge: the items that are done, and all     *)
(* pieces of every item.                                                      *)
Fresh == [started |-> FALSE, ended |-> FALSE, place |-> <<>>, usage |-> 0,
          closed |-> {}, kept |-> [i \in Items |-> <<>>]]

Announce(s) == IF s.started THEN <<>> ELSE <<[out |-> "start"]>>
Open(s, item, place) ==
  IF item \in DOMAIN s.place THEN <<>> ELSE <<[out |-> "open", item |-> item, place |-> place]>>
Placed(s, item, place) ==
  IF item \in DOMAIN s.place THEN s.place
  ELSE [i \in DOMAIN s.place \cup {item} |-> IF i = item THEN place ELSE s.place[i]]
Delta(item, piece) == IF piece = 0 THEN <<>> ELSE <<[out |-> "delta", item |-> item, piece |-> piece]>>

ItemOf(e) == IF e.kind = "text" THEN Text ELSE e.index
Merged(s, e) == IF e.kind = "usage" /\ e.tokens > s.usage THEN e.tokens ELSE s.usage

------------------------------------------------------------------------------
(* OpenAI chunks for an Anthropic client.                                     *)
mapOpenAIFinishReasonToAnthropic(reason) ==
  CASE reason = "length" -> "max_tokens" [] reason = "tool_calls" -> "tool_use" [] OTHER -> "end_turn"

(* The tools' blocks are closed in the order of a Go map: any.                *)
finalizeAnthropic(s, reason) ==
  IF s.ended THEN <<>>
  ELSE <<[out |-> "close", items |-> DOMAIN s.place],
         [out |-> "end", reason |-> reason, usage |-> s.usage], [out |-> "stop"]>>

BlockEvents(s, e) ==
  LET next == Cardinality(DOMAIN s.place)
  IN Open(s, ItemOf(e), next) \o Delta(ItemOf(e), e.piece)

ToAnthropic(s, e) ==
  LET t == [s EXCEPT !.started = TRUE, !.usage = Merged(s, e)]
      final == [t EXCEPT !.ended = TRUE]
  IN CASE e.kind = "done"  -> [s |-> [s EXCEPT !.ended = TRUE], out |-> finalizeAnthropic(s, "end_turn")]
       [] e.kind = "error" -> [s |-> [s EXCEPT !.ended = TRUE],
                               out |-> <<[out |-> "error"]>> \o finalizeAnthropic(s, "end_turn")]
       [] e.kind \in {"start", "usage"} -> [s |-> t, out |-> Announce(s)]
       [] e.kind \in {"text", "tool"} ->
            [s |-> [t EXCEPT !.place = Placed(s, ItemOf(e), Cardinality(DOMAIN s.place))],
             out |-> Announce(s) \o BlockEvents(s, e)]
       [] e.kind = "finish" ->
            [s |-> final, out |-> Announce(s) \o finalizeAnthropic(t, mapOpenAIFinishReasonToAnthropic(e.reason))]

------------------------------------------------------------------------------
(* Anthropic events for an OpenAI client.  Text has no block of its own.      *)
emitDone(s) ==
  IF s.ended THEN <<>>
  ELSE (IF s.usage = 0 THEN <<>> ELSE <<[out |-> "usage", usage |-> s.usage]>>) \o <<[out |-> "stop"]>>

ToOpenAI(s, e) ==
  LET t == [s EXCEPT !.usage = Merged(s, e)]
      next == Cardinality(DOMAIN s.place)
  IN CASE e.kind = "start"  -> [s |-> t, out |-> <<[out |-> "start"]>>]
       [] e.kind = "usage"  -> [s |-> t, out |-> <<>>]
       [] e.kind = "text"   -> [s |-> t, out |-> Delta(Text, e.piece)]
       [] e.kind = "tool"   -> [s |-> [t EXCEPT !.place = Placed(s, e.index, next)],
                                out |-> Open(s, e.index, next) \o Delta(e.index, e.piece)]
       [] e.kind = "finish" -> [s |-> t, out |-> <<[out |-> "end", reason |-> e.reason]>>]
       [] e.kind = "done"   -> [s |-> [s EXCEPT !.ended = TRUE], out |-> emitDone(s)]
       [] e.kind = "error"  -> [s |-> [s EXCEPT !.ended = TRUE], out |-> <<[out |-> "error"]>> \o emitDone(s)]

------------------------------------------------------------------------------
(* OpenAI chunks for a client of the Responses API.  The arguments of a       *)
(* custom tool that was bridged to a function are kept back until the finish. *)
(* Nothing tells an error from a chunk without choices.                       *)
ensureToolCallPlace(s, index) == (IF Text \in DOMAIN s.place THEN 1 ELSE 0) + index

Kept(s, item, piece) == [s.kept EXCEPT ![item] = @ \o IF piece = 0 THEN <<>> ELSE <<piece>>]

(* Mutant: the items are closed without what they hold.                       *)
BugFinalizeToolCallEvents(s) == <<[out |-> "close", items |-> DOMAIN s.place \ s.closed]>>

(* orderedToolCalls: by their indexes.                                        *)
InOrder(S) == [n \in 1..Cardinality(S) |-> CHOOSE i \in S : Cardinality({j \in S : j < i}) = n - 1]

finalizeToolCallEvents(s) ==
  LET open == DOMAIN s.place \ s.closed
      delayed == InOrder({i \in open \cap Custom : s.kept[i] # <<>>})
  IN [n \in DOMAIN delayed |-> [out |-> "whole", item |-> delayed[n], pieces |-> s.kept[delayed[n]]]]
     \o <<[out |-> "close", items |-> open]>>

buildFinalResponse(s) ==
  IF s.ended THEN <<>>
  ELSE <<[out |-> "end", reason |-> "completed", usage |-> s.usage,
          items |-> DOMAIN s.place, content |-> s.kept], [out |-> "stop"]>>

ToResponses(s, e) ==
  LET t == [s EXCEPT !.started = TRUE, !.usage = IF e.kind = "usage" THEN e.tokens ELSE s.usage]
      place == IF e.kind = "text" THEN 0 ELSE ensureToolCallPlace(s, e.index)
  IN CASE e.kind = "done" -> [s |-> [s EXCEPT !.ended = TRUE], out |-> buildFinalResponse(s)]
       [] e.kind \in {"start", "usage", "error"} -> [s |-> t, out |-> Announce(s)]
       [] e.kind \in {"text", "tool"} ->
            [s |-> [t EXCEPT !.place = Placed(s, ItemOf(e), place), !.kept = Kept(s, ItemOf(e), e.piece)],
             out |-> Announce(s) \o Open(s, ItemOf(e), place)
                     \o (IF ItemOf(e) \in Custom THEN <<>> ELSE Delta(ItemOf(e), e.piece))]
       [] e.kind = "finish" ->
            [s |-> [t EXCEPT !.closed = DOMAIN s.place], out |-> Announce(s) \o finalizeToolCallEvents(s)]

------------------------------------------------------------------------------
(* What a provider that keeps to its protocol may send next: after a finish   *)
(* only usage and the end, after an error the end; an Anthropic one announces *)
(* the message first.                                                         *)
Kinds == {read[i].kind : i \in DOMAIN read}

MaySend(e) ==
  /\ "done" \notin Kinds
  /\ "finish" \in Kinds => e.kind \in {"usage", "done"}
  /\ "error" \in Kinds => e.kind = "done"
  /\ e.kind = "start" => read = <<>>
  /\ bridge = "openai" /\ read = <<>> => e.kind \in {"start", "error"}

EventsNow ==
  LET piece == Len(read) + 1
  IN [kind : {"start", "error", "done"}] \cup [kind : {"text"}, piece : {piece}]
     \cup [kind : {"tool"}, index : Indexes, piece : {0, piece}]
     \cup [kind : {"usage"}, tokens : {piece}] \cup [kind : {"finish"}, reason : Reasons]

StreamInit ==
  /\ bridge \in {"anthropic", "openai", "responses"}
  /\ read = <<>> /\ state = Fresh /\ written = <<>> /\ over = "no"

handleEvent(s, e) ==
  CASE bridge = "anthropic" -> ToAnthropic(s, e)
    [] bridge = "openai"    -> ToOpenAI(s, e)
    [] bridge = "responses" -> ToResponses(s, e)

(* The loop of a bridge: an event is complete, the stream ends, or reading it *)
(* fails, after which nothing more is written.                                *)
ReadEvent ==
  /\ over = "no" /\ Len(read) < MaxEvents
  /\ \E e \in EventsNow :
       /\ MaySend(e)
       /\ LET step == handleEvent(state, e)
          IN read' = Append(read, e) /\ state' = step.s /\ written' = written \o step.out
  /\ UNCHANGED <<bridge, over>>

EndOfStream ==
  /\ over = "no" /\ over' = "eof"
  /\ state' = [state EXCEPT !.ended = TRUE]
  /\ written' = written \o (CASE bridge = "anthropic" -> finalizeAnthropic(state, "end_turn")
                              [] bridge = "openai"    -> emitDone(state)
                              [] bridge = "responses" -> buildFinalResponse(state))
  /\ UNCHANGED <<bridge, read>>

ReadFails == over = "no" /\ over' = "broken" /\ UNCHANGED <<bridge, read, state, written>>

StreamNext == ReadEvent \/ EndOfStream \/ ReadFails

StreamSpec == StreamInit /\ [][StreamNext]_streamVars

------------------------------------------------------------------------------
Wrote(mark) == {i \in DOMAIN written : written[i].out = mark}
Opened == {written[i].item : i \in Wrote("open")}

TextAfterTool == \E i, j \in Wrote("open") : i < j /\ written[j].item = Text

(* What a client's parser relies on, for every interleaving of text and tool  *)
(* calls: content follows the announcement and an item's opening and precedes *)
(* its closing; items are opened once, each at a place of its own; the stream *)
(* has one last mark and nothing after it.  The Responses bridge gives the    *)
(* message place 0 whenever it opens and moves only later tool calls up: if a *)
(* tool call began before the text, two items may share a place.              *)
StreamSound ==
  /\ \A i \in Wrote("open") \cup Wrote("delta") \cup Wrote("whole") :
       /\ \E j \in Wrote("start") : j < i
       /\ \A j \in Wrote("close") : j < i => written[i].item \notin written[j].items
  /\ \A i \in Wrote("delta") \cup Wrote("whole") :
       \/ \E j \in Wrote("open") : j < i /\ written[j].item = written[i].item
       \/ (bridge = "openai" /\ written[i].item = Text)
  /\ \A i, j \in Wrote("open") :
       i < j => /\ written[i].item # written[j].item
                /\ \/ written[i].place # written[j].place
                   \/ bridge = "responses" /\ TextAfterTool
  /\ \A i \in Wrote("stop") : i = Len(written)

(* The pieces a client has put together for an item, and those a provider     *)
(* gave for it.                                                               *)
PiecesIn(e, item) ==
  IF e.out \notin {"delta", "whole"} \/ e.item # item THEN <<>>
  ELSE IF e.out = "delta" THEN <<e.piece>> ELSE e.pieces
Pieces(marks, item) == FlattenSeq([i \in DOMAIN marks |-> PiecesIn(marks[i], item)])

GivenIn(e, item) ==
  IF e.kind \notin {"text", "tool"} \/ ItemOf(e) # item \/ e.piece = 0 THEN <<>> ELSE <<e.piece>>
Given(item) == FlattenSeq([i \in DOMAIN read |-> GivenIn(read[i], item)])

LastOf(kind, before) == {i \in DOMAIN read : read[i].kind = kind /\ i < before}
UsageBefore(n) == LET u == LastOf("usage", n) IN IF u = {} THEN 0 ELSE read[Max(u)].tokens
LastMark == LET d == LastOf("error", Len(read) + 1) IN IF d = {} THEN Len(read) + 1 ELSE Max(d)
FinishAt == LET f == LastOf("finish", Len(read) + 1) IN IF f = {} THEN Len(read) + 1 ELSE Max(f)

(* Nothing the provider said is lost or reordered on the way: every item's    *)
(* pieces reach the client, a bridged custom tool's by the finish; a stream   *)
(* that ended is closed with the usage told so far (to an Anthropic client:   *)
(* told before the finish, which is less than an OpenAI provider tells), and  *)
(* one that broke off is never passed off as complete.                        *)
StreamComplete ==
  /\ \A item \in Items :
       LET back == bridge = "responses" /\ item \in Custom /\ "finish" \notin Kinds
       IN Pieces(written, item) = IF back THEN <<>> ELSE Given(item)
  /\ over = "eof" => Wrote("stop") # {}
  /\ Wrote("stop") # {} => over = "eof" \/ Kinds \cap {"done", "error", "finish"} # {}
  /\ \A i \in Wrote("stop") :
       /\ bridge = "anthropic" => \A item \in Opened : \E j \in Wrote("close") : item \in written[j].items
       /\ bridge = "anthropic" => \A j \in Wrote("end") : written[j].usage = UsageBefore(FinishAt)
       /\ bridge = "responses" => \A j \in Wrote("end") :
            /\ written[j].usage = UsageBefore(Len(read) + 1)
            /\ \A item \in Items : written[j].content[item] = Given(item)
       /\ bridge = "openai" =>
            IF Wrote("usage") = {} THEN UsageBefore(LastMark) = 0
            ELSE \A j \in Wrote("usage") : written[j].usage = UsageBefore(LastMark)

(* Together: the client can read the stream, and reads what was said.         *)
StreamsSound == StreamSound /\ StreamComplete
=============================================================================
