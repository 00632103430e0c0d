----------------------------- MODULE CompatBodies -----------------------------
(***************************************************************************)
(* A conversation through the gateway (gateway/api/compat.go): the client  *)
(* sends its whole history with every request, in its own protocol, and    *)
(* any turn may be answered by a provider of either protocol.  The request *)
(* is converted for the provider and its answer for the client, who        *)
(* appends it.  A text, an id, an argument is a number, unique in the      *)
(* conversation.                                                           *)
(***************************************************************************)
EXTENDS Integers, Sequences, FiniteSets, SequencesExt

CONSTANTS
  JsonTexts,   \* the texts that are JSON
  MaxTexts     \* bound: texts, calls and results of a conversation

VARIABLES
  client,      \* its protocol: "anthropic", "chat" or "responses"
  history,     \* what it holds, in that protocol
  said         \* what was really said, by whom, in order

bodyVars == <<client, history, said>>

Adapters == {"anthropic", "chat"}
Tools == {"function", "custom"}   \* a custom tool is declared by Responses clients only

(* A call's arguments: json if they parse; under: they are the "input" of a   *)
(* bridged custom tool.                                                       *)
ToolCall(id, tool, value, json) == [id |-> id, tool |-> tool, value |-> value, json |-> json, under |-> FALSE]

------------------------------------------------------------------------------
(* buildCompatPlan: the form of the body that is sent on, by the path.  A     *)
(* Responses client is sent to /v1/chat/completions whatever the adapter.     *)
ForwardFormat(cl, adapter) == IF cl = "responses" THEN "chat" ELSE adapter

(* Messages of the chat protocol: texts, tool calls, and the id a tool        *)
(* message answers.  Those of the Anthropic protocol hold blocks, those of    *)
(* the Responses API are items of one thing each.                             *)
Chat(role, texts, calls) == [role |-> role, texts |-> texts, calls |-> calls, answers |-> 0]
ToolMessage(id, text) == [role |-> "tool", texts |-> <<text>>, calls |-> <<>>, answers |-> id]

FlattenMap(f(_), seq) == FlattenSeq([i \in DOMAIN seq |-> f(seq[i])])
Where(P(_), seq) == FlattenMap(LAMBDA x : IF P(x) THEN <<x>> ELSE <<>>, seq)
Map(f(_), seq) == [i \in DOMAIN seq |-> f(seq[i])]

Blocks(content, type) == Where(LAMBDA b : b.type = type, content)
TextsOf(content) == Map(LAMBDA b : b.text, Blocks(content, "text"))
CallsOf(content) == Map(LAMBDA b : b.call, Blocks(content, "tool_use"))

(* Thinking is dropped, and the order between texts and calls.                *)
convertAnthropicAssistantMessageToOpenAI(content) ==
  <<Chat("assistant", TextsOf(content), CallsOf(content))>>

(* Mutant: the texts first, and one result.                                   *)
BugConvertUser(content) ==
  LET texts == TextsOf(content)
      results == Blocks(content, "tool_result")
  IN (IF texts = <<>> THEN <<>> ELSE <<Chat("user", texts, <<>>)>>)
     \o (IF results = <<>> THEN <<>> ELSE <<ToolMessage(results[1].id, results[1].text)>>)

(* Texts are collected until a result comes, which is a message of its own.   *)
flushUserParts(acc) ==
  IF acc.parts = <<>> THEN acc.out ELSE Append(acc.out, Chat("user", acc.parts, <<>>))

readBlock(acc, b) ==
  IF b.type = "tool_result"
  THEN [out |-> Append(flushUserParts(acc), ToolMessage(b.id, b.text)), parts |-> <<>>]
  ELSE IF b.type = "text" THEN [out |-> acc.out, parts |-> Append(acc.parts, b.text)] ELSE acc

convertAnthropicUserMessageToOpenAI(content) ==
  LET read[n \in 0..Len(content)] ==
        IF n = 0 THEN [out |-> <<>>, parts |-> <<>>] ELSE readBlock(read[n - 1], content[n])
      messages == flushUserParts(read[Len(content)])
  IN IF messages = <<>> THEN <<Chat("user", <<>>, <<>>)>> ELSE messages

convertAnthropicMessageToOpenAI(m) ==
  CASE m.role = "assistant" -> convertAnthropicAssistantMessageToOpenAI(m.content)
    [] m.role = "user"      -> convertAnthropicUserMessageToOpenAI(m.content)
    [] m.role = "system"    -> <<Chat("system", TextsOf(m.content), <<>>)>>

convertAnthropicRequestToOpenAIChat(messages) == FlattenMap(convertAnthropicMessageToOpenAI, messages)

(* The other way: each tool message becomes a user message of its own, and a  *)
(* result that is JSON is given as the value it parses to, which is another   *)
(* thing than the text: -text.  Arguments that do not parse are an error.     *)
TextBlock(text) == [type |-> "text", text |-> text]
ToolUse(call) == [type |-> "tool_use", call |-> call]
ToolResult(id, text) == [type |-> "tool_result", id |-> id, text |-> text]

Failed == <<[role |-> "error"]>>

decodeOpenAIToolResultContent(text) == IF text \in JsonTexts THEN -text ELSE text

convertOpenAIToolMessageToAnthropic(m) ==
  [role |-> "user", content |-> <<ToolResult(m.answers, decodeOpenAIToolResultContent(m.texts[1]))>>]

convertOpenAIMessageToAnthropic(m) ==
  IF m.role = "tool" THEN convertOpenAIToolMessageToAnthropic(m)
  ELSE [role |-> m.role, content |-> Map(TextBlock, m.texts) \o Map(ToolUse, m.calls)]

convertOpenAIChatRequestToAnthropic(messages) ==
  IF \E i \in DOMAIN messages : \E j \in DOMAIN messages[i].calls : ~messages[i].calls[j].json
  THEN Failed
  ELSE Map(convertOpenAIMessageToAnthropic, messages)

(* Every item of a Responses client is a message of its own; a custom tool's  *)
(* input is wrapped as a function's argument.                                 *)
convertResponsesItem(it) ==
  CASE it.type = "message" -> <<Chat(it.role, <<it.text>>, <<>>)>>
    [] it.type = "custom_tool_call" ->
         <<Chat("assistant", <<>>, <<[it.call EXCEPT !.json = TRUE, !.under = TRUE]>>)>>
    [] it.type = "function_call" -> <<Chat("assistant", <<>>, <<it.call>>)>>
    [] it.type \in {"custom_tool_call_output", "function_call_output"} -> <<ToolMessage(it.id, it.text)>>
    [] it.type = "reasoning" -> <<>>

convertResponsesInputToChatMessages(items) == FlattenMap(convertResponsesItem, items)

Forward(cl, adapter, body) ==
  LET to == ForwardFormat(cl, adapter)
  IN CASE cl = "responses"               -> convertResponsesInputToChatMessages(body)
       [] cl = "anthropic" /\ to = "chat" -> convertAnthropicRequestToOpenAIChat(body)
       [] cl = "chat" /\ to = "anthropic" -> convertOpenAIChatRequestToAnthropic(body)
       [] OTHER                          -> body

------------------------------------------------------------------------------
(* The answers.  An OpenAI one is a chat message, an Anthropic one blocks.    *)
adaptOpenAIResponseToAnthropic(m) ==
  [role |-> "assistant",
   content |-> LET b == Map(TextBlock, m.texts) \o Map(ToolUse, m.calls) IN IF b = <<>> THEN <<TextBlock(0)>> ELSE b]

adaptAnthropicResponseToOpenAI(content) == Chat("assistant", TextsOf(content), CallsOf(content))

(* A call of a tool the client declared as custom is restored: its input is   *)
(* taken out of the arguments, if they have one.                              *)
restoreResponsesCustomToolCall(call) ==
  IF call.tool = "custom" THEN [type |-> "custom_tool_call", call |-> [call EXCEPT !.under = FALSE]]
  ELSE [type |-> "function_call", call |-> call]

adaptChatResponseToResponses(m) ==
  LET items == Map(LAMBDA t : [type |-> "message", role |-> "assistant", text |-> t], m.texts)
               \o Map(restoreResponsesCustomToolCall, m.calls)
  IN IF items = <<>> THEN <<[type |-> "message", role |-> "assistant", text |-> 0]>> ELSE items

(* What the client appends for an answer in the form `from`.                  *)
Adapted(cl, from, answer) ==
  CASE cl = "responses"                      -> adaptChatResponseToResponses(answer)
    [] cl = "anthropic" /\ from = "chat"      -> <<adaptOpenAIResponseToAnthropic(answer)>>
    [] cl = "anthropic" /\ from = "anthropic" -> <<[role |-> "assistant", content |-> answer]>>
    [] cl = "chat" /\ from = "anthropic"      -> <<adaptAnthropicResponseToOpenAI(answer)>>
    [] cl = "chat" /\ from = "chat"           -> <<answer>>

(* The choice of a tool; "" is no choice.  To forbid tools is not passed on   *)
(* to an Anthropic provider, though the tools are.                            *)
convertAnthropicToolChoiceToOpenAI(choice) ==
  CASE choice = "any" -> "required" [] OTHER -> choice
convertOpenAIToolChoiceToAnthropic(choice) ==
  CASE choice = "required" -> "any" [] choice = "none" -> "" [] OTHER -> choice

(* Tokens as each protocol counts them: OpenAI's prompt includes the cached   *)
(* ones, Anthropic's input does not.                                          *)
anthropicUsageToOpenAITokens(u) ==
  [prompt |-> u.input + u.created + u.read, cached |-> u.read, completion |-> u.output]
UsageToAnthropic(u) == [input |-> u.prompt, created |-> 0, read |-> u.cached, output |-> u.completion]

------------------------------------------------------------------------------
Statement(who, what, id, value) == [who |-> who, what |-> what, id |-> id, value |-> value]
CallStatement(call) == Statement("assistant", "call", call.id, call.value)

ChatStatements(m) ==
  IF m.role = "tool" THEN <<Statement("user", "result", m.answers, m.texts[1])>>
  ELSE Map(LAMBDA t : Statement(m.role, "text", 0, t), m.texts) \o Map(CallStatement, m.calls)

BlockStatements(role, b) ==
  CASE b.type = "text"        -> <<Statement(role, "text", 0, b.text)>>
    [] b.type = "tool_use"    -> <<CallStatement(b.call)>>
    [] b.type = "tool_result" -> <<Statement("user", "result", b.id, b.text)>>
    [] b.type = "thinking"    -> <<>>

ItemStatements(it) ==
  CASE it.type = "message" -> <<Statement(it.role, "text", 0, it.text)>>
    [] it.type \in {"custom_tool_call", "function_call"} -> <<CallStatement(it.call)>>
    [] it.type \in {"custom_tool_call_output", "function_call_output"} ->
         <<Statement("user", "result", it.id, it.text)>>
    [] it.type = "reasoning" -> <<>>

StatementsOf(form, m) ==
  CASE form = "chat"      -> ChatStatements(m)
    [] form = "anthropic" -> FlattenMap(LAMBDA b : BlockStatements(m.role, b), m.content)
    [] form = "responses" -> ItemStatements(m)

Statements(form, body) == FlattenMap(LAMBDA m : StatementsOf(form, m), body)
Next1 == Len(said) + 1
Ids(what) == {said[i].id : i \in {j \in DOMAIN said : said[j].what = what}}
Unanswered == Where(LAMBDA f : f.what = "call" /\ f.id \notin Ids("result"), said)

ToolOf(id) ==
  IF \E m \in ToSet(history) : m.type = "custom_tool_call" /\ m.call.id = id
  THEN "custom_tool_call_output" ELSE "function_call_output"

------------------------------------------------------------------------------
Saying(role, text) ==
  CASE client = "chat"      -> Chat(role, <<text>>, <<>>)
    [] client = "anthropic" -> [role |-> role, content |-> <<TextBlock(text)>>]
    [] client = "responses" -> [type |-> "message", role |-> role, text |-> text]

(* A conversation begins with the system's text or without.                   *)
BodyInit ==
  /\ client \in {"anthropic", "chat", "responses"}
  /\ \/ history = <<>> /\ said = <<>>
     \/ history = <<Saying("system", 1)>> /\ said = <<Statement("system", "text", 0, 1)>>

UserSays ==
  /\ Unanswered = <<>> /\ Len(said) < MaxTexts
  /\ history' = Append(history, Saying("user", Next1))
  /\ said' = Append(said, Statement("user", "text", 0, Next1))
  /\ UNCHANGED client

(* A provider answers: a text, calls, a text between two calls; an OpenAI     *)
(* model's arguments may be malformed.                                        *)
CallNow(n, tool, json) == ToolCall(Next1 + n, tool, Next1 + n, json)
ChatAnswers ==
  {Chat("assistant", <<Next1>>, <<>>)} \cup
  {Chat("assistant", texts, calls) :
     texts \in {<<>>, <<Next1>>},
     calls \in {<<CallNow(1, t, j)>> : t \in Tools, j \in BOOLEAN}
               \cup {<<CallNow(1, t, TRUE), CallNow(2, u, TRUE)>> : t \in Tools, u \in Tools}}
AnthropicAnswers ==
  {<<TextBlock(Next1)>>, <<[type |-> "thinking"], TextBlock(Next1), ToolUse(CallNow(1, "function", TRUE))>>,
   <<ToolUse(CallNow(1, "function", TRUE)), TextBlock(Next1), ToolUse(CallNow(2, "function", TRUE))>>}

Answer(adapter, answer) ==
  LET from == ForwardFormat(client, adapter)
  IN /\ said # <<>> /\ said[Len(said)].who = "user" /\ Unanswered = <<>> /\ Len(said) < MaxTexts
     /\ Forward(client, adapter, history) # Failed
     /\ history' = history \o Adapted(client, from, answer)
     /\ said' = said \o (IF from = "chat" THEN StatementsOf("chat", answer)
                         ELSE StatementsOf("anthropic", [role |-> "assistant", content |-> answer]))
     /\ UNCHANGED client

Answered ==
  \E adapter \in Adapters :
    \E answer \in IF ForwardFormat(client, adapter) = "chat" THEN ChatAnswers ELSE AnthropicAnswers :
      Answer(adapter, answer)

(* The client gives the results of all calls, in some order.                  *)
ResultsOf(calls) ==
  CASE client = "anthropic" -> <<[role |-> "user", content |-> Map(LAMBDA f : ToolResult(f.id, f.id + 100), calls)]>>
    [] client = "chat"      -> Map(LAMBDA f : ToolMessage(f.id, f.id + 100), calls)
    [] client = "responses" -> Map(LAMBDA f : [type |-> ToolOf(f.id), id |-> f.id, text |-> f.id + 100], calls)

ToolsReturn ==
  /\ Unanswered # <<>>
  /\ \E calls \in {Unanswered, Reverse(Unanswered)} :
       /\ history' = history \o ResultsOf(calls)
       /\ said' = said \o Map(LAMBDA f : Statement("user", "result", f.id, f.id + 100), calls)
  /\ UNCHANGED client

BodyNext == UserSays \/ Answered \/ ToolsReturn

BodySpec == BodyInit /\ [][BodyNext]_bodyVars

------------------------------------------------------------------------------
Part(statements, what) == Where(LAMBDA f : f.what = what /\ f.value # 0, statements)
SameSaid(a, b) == \A what \in {"text", "call", "result"} : Part(a, what) = Part(b, what)

(* In a chat body the calls of a message are answered by the tool messages    *)
(* right behind it.                                                           *)
TurnsClosed(body) ==
  \A i \in DOMAIN body :
    LET n == Len(body[i].calls)
    IN n > 0 /\ i < Len(body) =>
         /\ i + n <= Len(body)
         /\ {body[j].answers : j \in i + 1..i + n} = {body[i].calls[k].id : k \in 1..n}

ParallelCalls ==
  \E i, j \in DOMAIN said : i < j /\ said[i].what = "call" /\ said[j].what = "call"
                            /\ \A k \in i..j : said[k].who = "assistant"

(* What an Anthropic provider is told of what a chat client was told.         *)
Decoded(f) == IF f.what = "result" THEN [f EXCEPT !.value = decodeOpenAIToolResultContent(@)] ELSE f
Told(form) == IF client = "chat" /\ form = "anthropic" THEN Map(Decoded, said) ELSE said

(* Whoever answers the next turn reads the conversation the client had: every *)
(* text, call and result, with its id, in order, through any number of        *)
(* conversions in both directions, but that an Anthropic provider is not      *)
(* given the text of a chat client's result if it is JSON: it is given the    *)
(* value, so a number or an object is no longer a text, and a large number is *)
(* rounded.  A chat provider finds the results of a turn's calls behind them  *)
(* (a Responses client's parallel calls are put into separate messages, so it *)
(* does not); only malformed arguments make a history that cannot be sent on; *)
(* a choice of tools survives the way there and back unless it forbids them,  *)
(* the tokens unless some were cached.                                        *)
ConversationKept ==
  /\ SameSaid(Statements(client, history), said)
  /\ \A adapter \in Adapters :
       LET body == Forward(client, adapter, history)
           form == ForwardFormat(client, adapter)
       IN IF body = Failed
          THEN client = "chat" /\ \E m \in ToSet(history) : \E c \in ToSet(m.calls) : ~c.json
          ELSE /\ SameSaid(Statements(form, body), Told(form))
               /\ form = "chat" /\ ~(client = "responses" /\ ParallelCalls) => TurnsClosed(body)
               /\ form = adapter \/ client = "responses"
  /\ \A choice \in {"", "auto", "any", "tool", "none"} :
       convertOpenAIToolChoiceToAnthropic(convertAnthropicToolChoiceToOpenAI(choice))
       = IF choice = "none" THEN "" ELSE choice
  /\ \A p, c \in 0..2 :
       LET u == [prompt |-> p + c, cached |-> c, completion |-> 1]
           back == anthropicUsageToOpenAITokens(UsageToAnthropic(u))
       IN back = [u EXCEPT !.prompt = @ + c]

=============================================================================
