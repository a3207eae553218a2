----------------------------- MODULE ModelCall -----------------------------
(***************************************************************************)
(* One chat-model client and the calls made through it                     *)
(* (scientist/model.py, scientist/model_stdlib.py).  complete() runs a     *)
(* bounded number of attempts against one deadline; an attempt connects    *)
(* and posts the request (_create), then reads the reply the provider      *)
(* streams (_to_reply) and assembles its tool calls from fragments, and    *)
(* whatever an attempt raises is retried only when _is_transient says so.  *)
(*                                                                         *)
(* Time is counted in ticks from the start of the call, Second of them in  *)
(* a second.  The timeout handed to a transport bounds each of its waits   *)
(* (connecting, the head of the reply, the next bytes of its body), not    *)
(* their sum.  The provider, the network and the SDKs are outside the      *)
(* program: what they may do is a nondeterministic choice.  The clients    *)
(* are built without max_retries, so that an SDK may post again by itself. *)
(***************************************************************************)
EXTENDS Integers, Sequences

CONSTANTS
  Transports,  \* the clients of the run: subset of {"sdk", "stdlib", "anthropic"}
  Calls,       \* the indices under which a reply may number its tool calls
  Pieces,      \* [Calls -> Nat]: the argument fragments of each call
  MaxRetries,  \* max_retries of the client
  Timeout,     \* timeout_seconds of a call, in ticks
  Second,      \* ticks in a second
  SdkReposts,  \* the posts an SDK may add to one _create by itself
  SdkPause,    \* the longest an SDK waits before one of them, in ticks
  MaxCalls     \* bound: calls made through the client

ASSUME CallsAreIndices == Calls \subseteq Nat /\ Pieces \in [Calls -> Nat]
ASSUME TimesAreNats ==
  MaxRetries \in Nat /\ Timeout \in Nat /\ Second \in Nat \ {0}
ASSUME SdkIsBounded == SdkReposts \in Nat /\ SdkPause \in Nat
ASSUME BoundIsNat == MaxCalls \in Nat

VARIABLES
  transport,      \* which client
  streamOptions,  \* self._stream_usage: still asks for the usage chunk
  made,           \* calls begun
  pc,             \* where complete() is
  tools,          \* the call carries tool declarations
  attempt,        \* the loop variable
  clock,          \* ticks since the call began
  remaining,      \* what was left of the deadline when the attempt began
  posts,          \* posts the SDK has added to this _create
  waited,         \* ticks of this wait, or since the last attempt failed
  pause,          \* what is left of the SDK's pause
  spoke,          \* the provider answered something in this attempt
  answer,         \* what the provider means to say in this attempt
  sent,           \* fragments of each of its calls already on the wire
  text,           \* content received
  slots,          \* tool_fragments, per index
  fault,          \* the last thing that went wrong
  reply           \* what complete() returned

callVars == <<made, tools>>
timeVars == <<clock, remaining, posts, waited, pause>>
wireVars == <<spoke, answer, sent, text, slots>>
clientVars == <<transport, streamOptions, callVars, pc, attempt, timeVars, wireVars,
                fault, reply>>

Indices == Calls \cup {0}
NoReply == [text |-> FALSE, calls |-> <<>>]
NoAnswer == [text |-> FALSE, calls |-> {}, indexed |-> TRUE]
CallFaults == {"gateway", "refused", "bad_request", "unreachable", "disconnected",
               "incomplete", "silence", "empty", "no_tools", "deadline"}
Streaming == transport \in {"sdk", "stdlib"}

---------------------------------------------------------------------------
\* What the exception is named or carries, per transport.  The SDKs name
\* their connection errors; an interrupted body reaches the caller under
\* whatever name the HTTP library gives it.  The urllib transport wraps a
\* failed connect and an IncompleteRead in a ModelError whose MESSAGE says
\* "connection"; a reset or a disconnect keeps the name of the OSError.
Marks(k) ==
  CASE k = "gateway"      -> {"status"}
    [] k = "empty"        -> {"empty"}
    [] k = "silence"      -> {"timeout"}
    [] k = "disconnected" -> {"connection"}
    [] k = "unreachable"  ->
         IF transport = "stdlib" THEN {"message"} ELSE {"connection"}
    [] k = "incomplete"   ->
         IF transport = "stdlib" THEN {"message"} ELSE {"connection", "unnamed"}
    [] OTHER              -> {"unnamed"}

\* _is_transient: an empty reply, a status of the gateway family, "timeout" or
\* "connection" in a CLASS name.  The message is searched for the gateway
\* words and "timed out", not for "connection".
IsTransient(mark) == mark \in {"empty", "status", "timeout", "connection"}

---------------------------------------------------------------------------
\* Tool calls arrive in fragments: the head of call c carries its id and name,
\* <<c, k>> is the k-th piece of its argument text.  tool_fragments keeps, for
\* each index, the names and the pieces it got, each joined.
Slot(c) == IF answer.indexed THEN c ELSE 0
EmptySlot == [name |-> <<>>, arguments |-> <<>>]
NoSlots == [i \in Indices |-> EmptySlot]
WholeText(c) == [k \in 1..Pieces[c] |-> <<c, k>>]

\* _tool_call_from_fragment: no text is {}, the text of one whole call parses,
\* anything else is kept raw.
ToolCall(slot) ==
  [name |-> slot.name,
   arguments |->
     IF slot.arguments = <<>> THEN "{}"
     ELSE IF \E c \in Calls : slot.arguments = WholeText(c) THEN "object"
     ELSE "raw"]

\* _assemble_stream_reply: the named slots, by index.
Assembled ==
  [text |-> text,
   calls |-> [i \in {j \in Indices : slots[j].name # <<>>} |-> ToolCall(slots[i])]]

---------------------------------------------------------------------------
CallTypeOK ==
  /\ transport \in Transports /\ streamOptions \in BOOLEAN
  /\ made \in 0..MaxCalls /\ tools \in BOOLEAN
  /\ pc \in {"idle", "attempt", "connect", "head", "pause", "stream"}
  /\ attempt \in 0..MaxRetries
  /\ clock \in Nat /\ remaining \in 0..Timeout /\ waited \in Nat
  /\ posts \in 0..SdkReposts /\ pause \in 0..SdkPause
  /\ spoke \in BOOLEAN /\ text \in BOOLEAN
  /\ answer \in [text : BOOLEAN, calls : SUBSET Calls, indexed : BOOLEAN]
  /\ sent \in [Calls -> Nat]
  /\ slots \in [Indices -> [name : Seq(Calls), arguments : Seq(Calls \X Nat)]]
  /\ fault \in CallFaults \cup {"none"}

CallInit ==
  /\ transport \in Transports
  /\ streamOptions = (transport # "anthropic")
  /\ made = 0 /\ pc = "idle" /\ tools = FALSE
  /\ attempt = 0 /\ clock = 0 /\ remaining = 0 /\ posts = 0 /\ waited = 0 /\ pause = 0
  /\ spoke = FALSE /\ answer = NoAnswer /\ sent = [c \in Calls |-> 0]
  /\ text = FALSE /\ slots = NoSlots
  /\ fault = "none" /\ reply = NoReply

\* The caller (the turn loop of scientist/agent.py, the seat, the integrator).
Complete(t) ==
  /\ pc = "idle" /\ made < MaxCalls
  /\ made' = made + 1 /\ tools' = t
  /\ pc' = "attempt" /\ attempt' = 0
  /\ clock' = 0 /\ remaining' = 0 /\ posts' = 0 /\ waited' = 0 /\ pause' = 0
  /\ spoke' = FALSE /\ answer' = NoAnswer /\ sent' = [c \in Calls |-> 0]
  /\ text' = FALSE /\ slots' = NoSlots
  /\ fault' = "none" /\ reply' = NoReply
  /\ UNCHANGED <<transport, streamOptions>>

\* The except branch of complete: give up, or go round the loop at once.  A delay
\* is computed and announced ("retrying in"), and nothing waits for it; only
\* whether it would be positive matters.
Retriable(mark) ==
  IsTransient(mark) /\ attempt < MaxRetries /\ Timeout - clock - Second > 0

Caught(k) ==
  /\ fault' = k /\ waited' = 0
  /\ \E mark \in Marks(k) :
       IF Retriable(mark)
       THEN pc' = "attempt" /\ attempt' = attempt + 1
       ELSE pc' = "idle" /\ UNCHANGED attempt
  /\ UNCHANGED <<transport, callVars, clock, remaining, posts, pause, reply>>

\* The head of the loop: what is left of the deadline is the attempt's timeout.
OutOfTime ==
  /\ pc = "attempt" /\ Timeout - clock <= 0
  /\ pc' = "idle" /\ fault' = "deadline"
  /\ UNCHANGED <<transport, streamOptions, callVars, attempt, timeVars,
                 wireVars, reply>>

\* The slots of a failed attempt are not cleared by the next one.
StartAttempt_KeepsSlots ==
  /\ pc = "attempt" /\ Timeout - clock > 0
  /\ remaining' = Timeout - clock /\ waited' = 0 /\ posts' = 0
  /\ pc' = "connect" /\ spoke' = FALSE /\ answer' = NoAnswer
  /\ sent' = [c \in Calls |-> 0]
  /\ UNCHANGED <<transport, streamOptions, callVars, attempt, clock, pause,
                 text, slots, fault, reply>>

\* Every attempt gets the timeout of the call.
StartAttempt_Anew ==
  /\ pc = "attempt" /\ Timeout - clock > 0
  /\ remaining' = Timeout /\ waited' = 0 /\ posts' = 0
  /\ pc' = "connect" /\ spoke' = FALSE /\ answer' = NoAnswer
  /\ sent' = [c \in Calls |-> 0]
  /\ text' = FALSE /\ slots' = NoSlots
  /\ UNCHANGED <<transport, streamOptions, callVars, attempt, clock, pause,
                 fault, reply>>

StartAttempt ==
  /\ pc = "attempt" /\ Timeout - clock > 0
  /\ remaining' = Timeout - clock /\ waited' = 0 /\ posts' = 0
  /\ pc' = "connect" /\ spoke' = FALSE /\ answer' = NoAnswer
  /\ sent' = [c \in Calls |-> 0]
  /\ text' = FALSE /\ slots' = NoSlots
  /\ UNCHANGED <<transport, streamOptions, callVars, attempt, clock, pause,
                 fault, reply>>

\* The Messages API transport refuses tool declarations before it posts.
RefuseTools ==
  /\ pc = "connect" /\ transport = "anthropic" /\ tools
  /\ Caught("no_tools")
  /\ UNCHANGED <<streamOptions, wireVars>>

\* How long one wait may last: the urllib transport gives it a second at least.
Allowance == IF transport = "stdlib" /\ remaining < Second THEN Second ELSE remaining

\* What the SDKs post again by themselves, up to SdkReposts times.
Reposts == IF transport = "stdlib" THEN 0 ELSE SdkReposts
SdkRetries == {"gateway", "unreachable", "disconnected", "silence"}

Connecting == pc = "connect" /\ ~(transport = "anthropic" /\ tools)
Posting == pc = "head"
Listening == Connecting \/ Posting \/ pc = "stream"

Connected ==
  /\ Connecting
  /\ pc' = "head" /\ waited' = 0
  /\ UNCHANGED <<transport, streamOptions, callVars, attempt, clock, remaining,
                 posts, pause, wireVars, fault, reply>>

\* A 400 while the request still carries stream_options: they are dropped for
\* the life of the client and the request is posted again under the SAME
\* timeout.
DropStreamOptions ==
  /\ Posting /\ streamOptions
  /\ streamOptions' = FALSE /\ pc' = "connect" /\ posts' = 0 /\ waited' = 0
  /\ spoke' = TRUE
  /\ UNCHANGED <<transport, callVars, attempt, clock, remaining, pause,
                 answer, sent, text, slots, fault, reply>>

\* What may go wrong before the head of a reply is there.
Failing(k) ==
  \/ Connecting /\ k = "unreachable"
  \/ Posting /\ k \in {"gateway", "refused", "bad_request", "disconnected"}
  \/ (Connecting \/ Posting) /\ k = "silence" /\ waited = Allowance

\* The SDK posts the request again, under the same timeout.
PostAgain(k) ==
  /\ Failing(k) /\ k \in SdkRetries /\ posts < Reposts
  /\ posts' = posts + 1 /\ waited' = 0 /\ pc' = "pause"
  /\ pause' \in 0..SdkPause
  /\ spoke' = (spoke \/ k = "gateway")
  /\ UNCHANGED <<transport, streamOptions, callVars, attempt, clock, remaining,
                 answer, sent, text, slots, fault, reply>>

SdkWakes ==
  /\ pc = "pause" /\ pause = 0
  /\ pc' = "connect"
  /\ UNCHANGED <<transport, streamOptions, callVars, attempt, timeVars, wireVars,
                 fault, reply>>

PostFails(k) ==
  /\ Failing(k) /\ k # "silence"
  /\ k = "bad_request" => ~streamOptions
  /\ Caught(k)
  /\ UNCHANGED <<streamOptions, wireVars>>

\* A provider that numbers no fragment makes at most one call.
Answers ==
  {a \in [text : BOOLEAN, calls : SUBSET Calls, indexed : BOOLEAN] :
     /\ a.calls # {} => tools
     /\ ~a.indexed => \E c \in Calls : a.calls = {c}}

StreamOpens(a) ==
  /\ Posting /\ Streaming
  /\ answer' = a /\ pc' = "stream" /\ waited' = 0 /\ spoke' = TRUE
  /\ UNCHANGED <<transport, streamOptions, callVars, attempt, clock, remaining,
                 posts, pause, sent, text, slots, fault, reply>>

\* AnthropicChatModel: the reply comes whole; only its text blocks count.
WholeReply(t) ==
  /\ Posting /\ ~Streaming
  /\ spoke' = TRUE /\ answer' = [NoAnswer EXCEPT !.text = t] /\ text' = t
  /\ IF t
     THEN /\ pc' = "idle" /\ reply' = [text |-> TRUE, calls |-> <<>>]
          /\ UNCHANGED <<transport, callVars, attempt, timeVars, fault>>
     ELSE Caught("empty")
  /\ UNCHANGED <<streamOptions, sent, slots>>

TextDelta ==
  /\ pc = "stream" /\ answer.text /\ ~text
  /\ text' = TRUE /\ waited' = 0
  /\ UNCHANGED <<transport, streamOptions, callVars, pc, attempt, clock,
                 remaining, posts, pause, spoke, answer, sent, slots, fault,
                 reply>>

\* The next fragment of call c, whatever the other calls have sent.
Fragment(c) ==
  /\ pc = "stream" /\ c \in answer.calls /\ sent[c] <= Pieces[c]
  /\ slots' = IF sent[c] = 0
              THEN [slots EXCEPT ![Slot(c)].name = Append(@, c)]
              ELSE [slots EXCEPT ![Slot(c)].arguments = Append(@, <<c, sent[c]>>)]
  /\ sent' = [sent EXCEPT ![c] = @ + 1] /\ waited' = 0
  /\ UNCHANGED <<transport, streamOptions, callVars, pc, attempt, clock,
                 remaining, posts, pause, spoke, answer, text, fault, reply>>

\* A reasoning delta, a usage-only chunk, a keep-alive or a line that does not
\* parse: nothing is kept, but the read timer starts again.  The reader looks at
\* no deadline, so that this may go on for ever.
Skipped ==
  /\ pc = "stream"
  /\ waited' = 0
  /\ UNCHANGED <<transport, streamOptions, callVars, pc, attempt, clock,
                 remaining, posts, pause, wireVars, fault, reply>>

\* [DONE], or the end of the body wherever the provider stopped.
StreamEnds ==
  /\ pc = "stream"
  /\ IF Assembled.text \/ Assembled.calls # <<>>
     THEN /\ pc' = "idle" /\ reply' = Assembled
          /\ UNCHANGED <<transport, callVars, attempt, timeVars, fault>>
     ELSE Caught("empty")
  /\ UNCHANGED <<streamOptions, wireVars>>

StreamDies(k) ==
  /\ pc = "stream" /\ k \in {"incomplete", "disconnected"}
  /\ Caught(k)
  /\ UNCHANGED <<streamOptions, wireVars>>

\* The request is posted with no timeout.
Expire_Never == FALSE /\ UNCHANGED clientVars

\* The timeout of the attempt bounds each wait.
Expire ==
  /\ Listening /\ waited = Allowance
  /\ Caught("silence")
  /\ UNCHANGED <<streamOptions, wireVars>>

\* How long a call may last to which nothing is said: an attempt begins before the
\* deadline with what is left of it (a second at least), and waits for it twice
\* in each of its posts, with the SDK's pauses between these.
LongestOf(t) == t * 2 * (Reposts + 1) + SdkPause * Reposts
Longest == LET full == LongestOf(Timeout) IN
           LET late == Timeout + LongestOf(Second) IN IF full < late THEN late ELSE full

\* The clock of a call is only counted as far as one tick past that, and past the
\* deadline only until something was said.
Later(t) == IF t < Timeout \/ (~spoke /\ t <= Longest) THEN t + 1 ELSE t

\* Time passes while complete() waits, and on its way round the loop, where being
\* later than the deadline makes no difference.
Tick ==
  /\ \/ Listening /\ waited < Allowance /\ waited' = waited + 1 /\ UNCHANGED pause
     \/ pc = "attempt" /\ clock < Timeout /\ waited' = waited + 1 /\ UNCHANGED pause
     \/ pc = "pause" /\ pause > 0 /\ pause' = pause - 1 /\ UNCHANGED waited
  /\ clock' = Later(clock)
  /\ UNCHANGED <<transport, streamOptions, callVars, pc, attempt, remaining,
                 posts, wireVars, fault, reply>>

Program == OutOfTime \/ StartAttempt \/ RefuseTools \/ Expire \/ SdkWakes
Provider ==
  \/ Connected \/ DropStreamOptions
  \/ \E k \in CallFaults : PostFails(k) \/ PostAgain(k) \/ StreamDies(k)
  \/ \E a \in Answers : StreamOpens(a)
  \/ \E t \in BOOLEAN : WholeReply(t)
  \/ TextDelta \/ (\E c \in Calls : Fragment(c)) \/ Skipped \/ StreamEnds

CallNext == (\E t \in BOOLEAN : Complete(t)) \/ Program \/ Provider \/ Tick

CallSpec == CallInit /\ [][CallNext]_clientVars
\* Time passes and the program runs; nothing is assumed of the provider.
CallFairSpec == CallSpec /\ WF_clientVars(Program) /\ WF_clientVars(Tick)

---------------------------------------------------------------------------
Sent(c) == sent[c] = Pieces[c] + 1
AllOfIt == (answer.text => text) /\ \A c \in answer.calls : Sent(c)

\* Whatever the order in which the fragments of several tool calls arrive and
\* whatever earlier attempts of the call received, a call handed over with a
\* parsed argument object is one call of the provider, whole; and a stream
\* read to its end hands over exactly the answer
\* (model.py, _to_reply and _assemble_stream_reply).
ReplyIsTheAnswer ==
  reply # NoReply =>
    /\ \A i \in DOMAIN reply.calls :
         reply.calls[i].arguments = "object" =>
           \E c \in answer.calls :
             Slot(c) = i /\ Sent(c) /\ reply.calls[i].name = <<c>>
    /\ AllOfIt =>
         /\ reply.text = answer.text
         /\ DOMAIN reply.calls = {Slot(c) : c \in answer.calls}
         /\ \A c \in answer.calls :
              reply.calls[Slot(c)] =
                [name |-> <<c>>,
                 arguments |-> IF Pieces[c] = 0 THEN "{}" ELSE "object"]

GaveUp == pc = "idle" /\ fault # "none" /\ reply = NoReply
RetriesLeft == attempt < MaxRetries /\ clock < Timeout - Second

\* A gateway status, a silent provider or an empty reply ends a call only when
\* its retries or its time are used up, on every transport
\* (model.py, _is_transient and complete).
TransientIsRetried ==
  GaveUp /\ fault \in {"gateway", "silence", "empty"} => ~RetriesLeft

\* A call hands over the provider's answer, or it has tried as often as it may.
AnsweredOrTried == CallTypeOK /\ ReplyIsTheAnswer /\ TransientIsRetried

\* As long as the provider says nothing the retries share one deadline: however
\* many of them there are, the call lasts no longer than its first attempt may
\* (complete: "remaining" is the attempt's timeout).
SilenceIsShared == ~spoke => clock <= Longest

\* Every call ends, with a reply or an error, though the provider owes nothing;
\* unless it keeps the stream alive for ever and says nothing in it.
KeptAlive == []<><<Skipped>>_clientVars
CallEnds == KeptAlive \/ (pc # "idle" ~> pc = "idle")

\* "Transient upstream failures are retried with exponential backoff"
\* (_RetryChatModel): some time lies between a failure and the next attempt.
RetriesBackOff == [][StartAttempt /\ attempt > 0 => waited > 0]_clientVars
============================================================================
