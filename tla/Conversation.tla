---------------------------- MODULE Conversation ----------------------------
(***************************************************************************)
(* The Conversation service: Message answers a text from the cache if it   *)
(* can, and asks the server in any case; OnResponse refreshes the cache.   *)
(* A text means different things at different places of a dialog, so the   *)
(* hash of a message covers the text and the dialog stack of the context;  *)
(* the rest of the context is left out here.  A cache entry holds several  *)
(* responses, each with the time it was last given.                        *)
(*                                                                         *)
(* External: the server, which answers each message once or with nothing,  *)
(* in any order; the data cache on disk, which outlives the program and    *)
(* may drop an entry.                                                      *)
(***************************************************************************)
EXTENDS Naturals, Sequences, FiniteSets, SequencesExt

CONSTANTS
    Texts,       \* what is said
    Stacks,      \* places of the dialog (context.system.dialog_stack)
    Responses,   \* what the server may answer: the next place, whether it has
                 \* intents, and whether the m_CacheTag is in the output
    Opening,     \* the place where a dialog begins
    MaxAge,      \* m_MaxCacheAge
    MaxTime,     \* bound: the clock
    MaxRequests  \* bound: messages and questions

ASSUME ResponsesAssumption ==
    Responses \subseteq [stack : Stacks, intents : BOOLEAN, tagged : BOOLEAN]
ASSUME OpeningAssumption == Opening \in Stacks
ASSUME ConversationBoundsAssumption ==
    MaxAge \in Nat /\ MaxTime \in Nat /\ MaxRequests \in Nat

Requests == 1 .. MaxRequests
Hashes == Texts \X Stacks

VARIABLES
    now,      \* the time, in units of an hour
    cache,    \* the entry of each hash, a sequence of items with their response
              \* and timestamp; empty if there is none
    message   \* the MessageReq objects: "callback" is that m_Callback is set,
              \* "live" ends with delete this

conversationVars == <<now, cache, message>>

\* The hash of the input, computed before the full context is added.
InputHash(text, stack) == <<text, stack>>

-----------------------------------------------------------------------------
(* The entry of the cache after a response, step by step as in OnResponse. *)

\* An entry that has the response gets its timestamp renewed.
Touch(items, response) ==
    LET known == SelectInSeq(items, LAMBDA item : item.response = response)
    IN  IF known = 0 THEN items ELSE [items EXCEPT ![known].timestamp = now]

\* Mutant: the item that takes the place of a removed one is not looked at.
Expire_MovesOn(acc) ==
    IF acc.i > Len(acc.items) THEN acc
    ELSE IF now - acc.items[acc.i].timestamp > MaxAge
    THEN [acc EXCEPT !.i = @ + 1,
                     !.items = Front([acc.items EXCEPT ![acc.i] = Last(acc.items)])]
    ELSE [acc EXCEPT !.i = @ + 1]

\* One turn of the loop that removes expired items: the last one takes the
\* place of the removed one, and is looked at next.
Expire(acc) ==
    IF now - acc.items[acc.i].timestamp > MaxAge
    THEN [acc EXCEPT !.items = Front([acc.items EXCEPT ![acc.i] = Last(acc.items)])]
    ELSE [acc EXCEPT !.i = @ + 1]

\* Every turn removes an item or steps over one, so there are as many turns as
\* items at first.
Unexpired(items) ==
    LET loop[n \in 0 .. Len(items)] ==
            IF n = 0 THEN [i |-> 1, items |-> items] ELSE Expire(loop[n - 1])
    IN  loop[Len(items)].items

Refreshed(items, response) ==
    LET kept == Unexpired(Touch(items, response))
        known == \E i \in DOMAIN items : items[i].response = response
    IN  IF known THEN kept ELSE Append(kept, [response |-> response, timestamp |-> now])

\* Mutant: the hash is that of the context the answer arrives in.
Cached_UnderAnyHash(m, response) ==
    IF m.useCache /\ response.tagged
    THEN [cache EXCEPT ![<<m.inputHash[1], response.stack>>] = Refreshed(@, response)]
    ELSE cache

\* Only tagged responses are cached, and only if the message asked for it.
Cached(m, response) ==
    IF m.useCache /\ response.tagged
    THEN [cache EXCEPT ![m.inputHash] = Refreshed(@, response)]
    ELSE cache

-----------------------------------------------------------------------------
\* Mutant: the callback is not reset.
Message_KeepsCallback(r, hash, useCache, callback, hit) ==
    message' = [message EXCEPT ![r] = [live |-> TRUE, inputHash |-> hash,
                                       useCache |-> useCache, callback |-> callback]]

\* The constructor of MessageReq.  "callback" is that the delegate it was given
\* is not empty, "hit" is a response picked from the entry, and then the
\* callback has had its answer and is reset.
Message(r, hash, useCache, callback, hit) ==
    message' = [message EXCEPT ![r] = [live |-> TRUE, inputHash |-> hash, useCache |-> useCache,
                                       callback |-> callback /\ hit = {}]]

\* What the constructor may pick: nothing if the cache is not used or has no
\* entry, otherwise one of its items.
Hits(hash, useCache) ==
    IF useCache /\ cache[hash] # << >>
    THEN {{item.response} : item \in ToSet(cache[hash])}
    ELSE {{}}

\* A phrase of the pre-cache file: the delegate is empty, so a hit is told to
\* nobody.  The server is asked in any case.
Precache(r, text, stack) ==
    LET hash == InputHash(text, stack)
    IN  \E hit \in Hits(hash, TRUE) : Message(r, hash, TRUE, FALSE, hit)

OnResponse(r, response) ==
    /\ message[r].live
    /\ message' = [message EXCEPT ![r].live = FALSE]
    /\ cache' = IF response = {} THEN cache
                ELSE Cached(message[r], CHOOSE x \in response : TRUE)

\* External: time passes, the data cache drops an entry.
Tick ==
    /\ now < MaxTime
    /\ now' = now + 1
    /\ UNCHANGED <<cache, message>>

Drop ==
    /\ \E hash \in Hashes : cache[hash] # << >> /\ cache' = [cache EXCEPT ![hash] = << >>]
    /\ UNCHANGED <<now, message>>
=============================================================================
