------------------------------- MODULE Dialog -------------------------------
(***************************************************************************)
(* The request objects of the proxies that answer what a user says:        *)
(* ConversationProxy and NLCProxy classify a text, DeepQAProxy,            *)
(* RetrieveAndRankProxy and InteractProxy answer a question.  Each object  *)
(* is made for one text, calls its user back and deletes itself.  A        *)
(* ConversationProxy may be called back inside its own constructor, by a   *)
(* cached response; it also keeps the context of the dialog.               *)
(*                                                                         *)
(* A behaviour uses one proxy, chosen at first: they share nothing.        *)
(*                                                                         *)
(* External: REST requests are answered once, later, or with nothing.      *)
(* Filters, which only rename the class of a result, are left out.         *)
(***************************************************************************)
EXTENDS Conversation

VARIABLES
    proxy,       \* the proxy that is asked
    found,       \* whether its service is there (for Conversation, and the workspace)
    stack,       \* m_MergedContext's dialog stack
    useCache,    \* m_bUseCache
    request,     \* the request objects
    asked,       \* history: requests made
    given        \* history: what the server has answered to each hash

configured == <<proxy, found, useCache>>
dialogVars == <<conversationVars, configured, stack, request, asked, given>>

Proxies == {"Conversation", "NLC", "DeepQA", "RetrieveAndRank", "Interact"}

\* A request object before its use.  "classified" is m_bTextClassified, and for
\* the other proxies that the constructor is over; "got" is the response its
\* user was called back with, "touched" counts calls of a deleted object.
Unused(h) ==
    [live |-> FALSE, classified |-> FALSE, answers |-> 0,
     touched |-> 0, said |-> h, got |-> {}]

DialogInit ==
    /\ now = 0
    /\ \E h \in Hashes, r1, r2 \in Responses :
          cache \in {[g \in Hashes |-> << >>],
                     [g \in Hashes |-> IF g = h /\ r1.tagged /\ r2.tagged /\ r1 # r2
                                       THEN <<[response |-> r1, timestamp |-> 0],
                                              [response |-> r2, timestamp |-> 0]>> ELSE << >>]}
    /\ \E h \in Hashes :
          /\ message = [r \in Requests |-> [live |-> FALSE, inputHash |-> h,
                                            useCache |-> FALSE, callback |-> FALSE]]
          /\ request = [r \in Requests |-> Unused(h)]
          /\ h = CHOOSE g \in Hashes : TRUE
    /\ proxy \in Proxies
    /\ found \in BOOLEAN
    /\ stack = Opening
    /\ useCache \in BOOLEAN
    /\ asked = 0
    /\ given = [h \in Hashes |-> {i.response : i \in ToSet(cache[h])}]

-----------------------------------------------------------------------------
(* The methods of a request object, as functions of it.                    *)

\* Every call of a method counts when the object is gone already.
Called(q) == IF q.live THEN q ELSE [q EXCEPT !.touched = @ + 1]

\* m_Callback is called and, once the constructor has finished, the object
\* deletes itself.
Answered(q, response) ==
    [Called(q) EXCEPT !.answers = @ + 1, !.got = response,
                      !.live = ~q.classified /\ q.live, !.classified = TRUE]

\* The end of ConversationProxy's constructor: a request that was answered
\* inside it is deleted now, any other by its callback.
Constructed(q) ==
    IF q.classified THEN [q EXCEPT !.live = FALSE] ELSE [q EXCEPT !.classified = TRUE]

\* OnTextClassified saves the context of a response that has intents.
NextStack(response) ==
    IF \E x \in response : x.intents THEN (CHOOSE x \in response : TRUE).stack ELSE stack

\* The constructors of the other proxies' requests.  Without its service a
\* DeepQARequest deletes itself and nothing else; InteractProxy's calls its own
\* handler with nothing; NLCProxy's and RetrieveAndRankProxy's answer likewise.
DeepQARequest(q) == IF found THEN q ELSE [q EXCEPT !.live = FALSE]
InteractRequest(q) == IF found THEN q ELSE Answered(q, {})
OtherRequest(q) == IF found THEN q ELSE Answered(q, {})

New(text) == [Unused(InputHash(text, stack)) EXCEPT !.live = TRUE]

-----------------------------------------------------------------------------
NextRequest(r) == r = asked + 1 /\ asked' = r

\* ConversationProxy::ClassifyText; without the service or a workspace the
\* answer is a failure at once.
Classify(r, text) ==
    /\ proxy = "Conversation"
    /\ NextRequest(r)
    /\ IF found
       THEN LET hash == InputHash(text, stack)
            IN  \E hit \in Hits(hash, useCache) :
                   LET q == New(text)
                   IN  /\ Message(r, hash, useCache, TRUE, hit)
                       /\ request' = [request EXCEPT
                              ![r] = Constructed(IF hit = {} THEN q ELSE Answered(q, hit))]
                       /\ stack' = NextStack(hit)
       ELSE /\ request' = [request EXCEPT ![r] = [New(text) EXCEPT
                                     !.classified = TRUE, !.answers = 1, !.live = FALSE]]
            /\ UNCHANGED <<message, stack>>
    /\ UNCHANGED <<now, cache, configured, given>>

\* A line of ConversationProxy's m_PreCacheFile, on Start, before any text.
PrecacheLine(r, text) ==
    /\ proxy = "Conversation" /\ found
    /\ \A p \in Requests : ~request[p].classified
    /\ NextRequest(r)
    /\ Precache(r, text, stack)
    /\ UNCHANGED <<now, cache, configured, stack, request, given>>

\* The server's answer to a message, or nothing.
OnConversation(r, response) ==
    /\ OnResponse(r, response)
    /\ given' = [given EXCEPT ![message[r].inputHash] = @ \cup response]
    /\ IF message[r].callback
       THEN /\ request' = [request EXCEPT ![r] = Answered(@, response)]
            /\ stack' = NextStack(response)
       ELSE UNCHANGED <<request, stack>>
    /\ UNCHANGED <<now, configured, asked>>

\* AskQuestion or ClassifyText of the other proxies.
Ask(r, text) ==
    /\ proxy # "Conversation"
    /\ NextRequest(r)
    /\ LET q == [New(text) EXCEPT !.classified = TRUE]
       IN  request' = [request EXCEPT ![r] = CASE proxy = "DeepQA" -> DeepQARequest(q)
                                              [] proxy = "Interact" -> InteractRequest(q)
                                              [] OTHER -> OtherRequest(q)]
    /\ UNCHANGED <<conversationVars, configured, stack, given>>

\* Their service answers, or gives nothing.
OnAnswer(r) ==
    /\ proxy # "Conversation"
    /\ request[r].live
    /\ request' = [request EXCEPT ![r] = Answered(@, {})]
    /\ UNCHANGED <<conversationVars, configured, stack, asked, given>>

-----------------------------------------------------------------------------
Responded(r) == \E response \in {{}} \cup {{x} : x \in Responses} : OnConversation(r, response)

DialogNext ==
    \/ \E r \in Requests, text \in Texts :
          Classify(r, text) \/ PrecacheLine(r, text) \/ Ask(r, text)
    \/ \E r \in Requests : Responded(r) \/ OnAnswer(r)
    \/ (Tick \/ Drop) /\ UNCHANGED <<configured, stack, request, asked, given>>

DialogSpec == DialogInit /\ [][DialogNext]_dialogVars

-----------------------------------------------------------------------------
\* Whoever asks is answered once, by the cache inside the constructor or by the
\* server later, never by both, and the request object is not used after it has
\* deleted itself.  Until then a message is under way that will call it back.
\* (DeepQAProxy without its service does not answer at all.)
AnsweredOnce ==
    \A r \in Requests :
        LET q == request[r]
            silent == proxy = "DeepQA" /\ ~found
        IN  /\ q.touched = 0 /\ q.answers <= 1
            /\ q.live => q.answers = 0
            /\ q.live /\ proxy = "Conversation" => message[r].live /\ message[r].callback
            /\ q.classified /\ ~q.live /\ ~silent => q.answers = 1

\* An answer, cached or not, is one the server has given to this text at this
\* place of the dialog, although other answers move the dialog on while the
\* message is under way.
AnswersFit ==
    /\ \A r \in Requests : request[r].got \subseteq given[request[r].said]
    /\ \A h \in Hashes : \A item \in ToSet(cache[h]) : item.response \in given[h]

\* Refreshing an entry keeps exactly the items that have not expired and the
\* response just given, each once: the loop, which puts the last item in the
\* place of a removed one, passes over none.
EntriesAreFresh ==
    [][\A h \in Hashes : cache'[h] \notin {cache[h], << >>} =>
          \E new \in ToSet(cache'[h]) :
             /\ new.timestamp = now
             /\ ToSet(cache'[h]) = {new} \cup {i \in ToSet(cache[h]) :
                                                 now - i.timestamp <= MaxAge
                                                 /\ i.response # new.response}
             /\ \A i, j \in DOMAIN cache'[h] :
                   cache'[h][i].response = cache'[h][j].response => i = j]_dialogVars
=============================================================================
