------------------------------ MODULE Gateway ------------------------------
(***************************************************************************)
(* The front door of exg-api-gateway: who is let in, and under which name. *)
(* Handlers on several threads share the rate limiter (middleware.rs), the *)
(* id generator (exg-common/src/ids.rs) and the table of users             *)
(* (exg-user-service/src/repo.rs), and all of them read a clock that may   *)
(* be stepped back.  What happens to an order behind the door is Server's. *)
(*                                                                         *)
(* One unit of time is a millisecond of the id generator; tokens are       *)
(* counted in fractions, of which a request costs TokenCost.               *)
(***************************************************************************)
EXTENDS Integers, Sequences, FiniteSets, TLC

CONSTANTS
    Handlers,       \* requests in progress at a time
    Emails,         \* as they are written
    Mailbox,        \* to_lowercase of them
    IPs,
    MaxTokens,      \* of a bucket, in requests
    TokenCost,
    RefillPerTick,
    MaxSeq,         \* MAX_SEQ of the id generator
    Expiry,         \* jwt_expiry_secs
    Start,          \* where the clock starts
    Bounds          \* bound: [requests, ticks, restarts]; a run picks one

ASSUME GatewayAssumption ==
    /\ {MaxTokens, TokenCost} \subseteq Nat \ {0}
    /\ {RefillPerTick, MaxSeq, Expiry} \subseteq Nat
    /\ Start \in Nat \ {0}
    /\ DOMAIN Mailbox = Emails
    /\ \A b \in Bounds : {b.requests, b.ticks, b.restarts} \subseteq Nat

VARIABLES
    clock,
    generator,  \* SnowflakeGen's packed state: the last id's [ms, seq]
    buckets,    \* RateLimiter: per key [tokens, last_refill]
    users,      \* the table: per mailbox [id, password]
    step,       \* per handler; "idle" without a request
    request,    \* the request it handles
    now,        \* the time it has read
    old,        \* the generator's state it has read, then the id it has taken
    tokens,     \* the tokens clients hold: [user, exp]
    issued,     \* history: the ids of this boot, in the order they were taken
    admitted,   \* history: per key of this boot, how often it was let in,
                \* and the time the first request bore
    latest,     \* history: the highest the clock has been
    left        \* what is left of the bound

shared == <<generator, buckets, users>>
handlerVars == <<step, request, now, old>>
history == <<issued, admitted, latest>>
gatewayVars == <<clock, shared, handlerVars, tokens, history, left>>

Zero == [ms |-> 0, seq |-> 0]
NoRequest == [kind |-> "none"]

GatewayInit ==
    /\ clock = Start /\ latest = Start
    /\ generator = Zero /\ buckets = << >>
    /\ users = << >> /\ tokens = {}
    /\ step = [h \in Handlers |-> "idle"]
    /\ request = [h \in Handlers |-> NoRequest]
    /\ now = [h \in Handlers |-> 0]
    /\ old = [h \in Handlers |-> Zero]
    /\ issued = << >> /\ admitted = << >>
    /\ left \in Bounds

-----------------------------------------------------------------------------
(* The rate limiter.  Every request reads the time before it takes the     *)
(* limiter's lock, so a bucket may meet an earlier time than before.       *)

\* Mutant: a bucket that meets an earlier time starts to count from there.
RewindMutant(bucket, time) ==
    LET elapsed == IF time > bucket.last THEN time - bucket.last ELSE 0
        refilled == bucket.tokens + elapsed * RefillPerTick
    IN  [tokens |-> IF refilled > MaxTokens * TokenCost THEN MaxTokens * TokenCost ELSE refilled,
         last   |-> time]

\* refill: saturating_sub, and nothing changes unless time has passed.
Refill(bucket, time) ==
    LET refilled == bucket.tokens + (time - bucket.last) * RefillPerTick
    IN  IF time <= bucket.last THEN bucket
        ELSE [tokens |-> IF refilled > MaxTokens * TokenCost THEN MaxTokens * TokenCost
                         ELSE refilled,
              last   |-> time]

BucketOf(key, time) ==
    IF key \in DOMAIN buckets THEN buckets[key]
    ELSE [tokens |-> MaxTokens * TokenCost, last |-> time]

Allows(key, time) == Refill(BucketOf(key, time), time).tokens >= TokenCost

\* consume each of the keys, whatever the others answer.
Charge(keys, time) ==
    LET Consumed(key) ==
            IF Allows(key, time)
            THEN [Refill(BucketOf(key, time), time) EXCEPT !.tokens = @ - TokenCost]
            ELSE Refill(BucketOf(key, time), time)
        Counted(key) ==
            LET before == IF key \in DOMAIN admitted THEN admitted[key]
                          ELSE [count |-> 0, since |-> time]
            IN  IF Allows(key, time) THEN [before EXCEPT !.count = @ + 1] ELSE before
    IN  /\ buckets' = [key \in keys \cup DOMAIN buckets |->
                          IF key \in keys THEN Consumed(key) ELSE buckets[key]]
        /\ admitted' = [key \in keys \cup DOMAIN admitted |->
                          IF key \in keys THEN Counted(key) ELSE admitted[key]]

-----------------------------------------------------------------------------
(* The id generator, and what an id looks like: later is greater.          *)

IdBelow(a, b) == a.ms < b.ms \/ (a.ms = b.ms /\ a.seq < b.seq)

Exhausted(state, time) == time <= state.ms /\ state.seq >= MaxSeq

NextId(state, time) ==
    IF time > state.ms THEN [ms |-> time, seq |-> 0]
    ELSE [ms |-> state.ms, seq |-> state.seq + 1]

-----------------------------------------------------------------------------
(* A request.                                                              *)

\* The bucket keys of a request, by its kind.
KeysOf(r) ==
    CASE r.kind = "register" -> {<<"register", r.ip>>}
      [] r.kind = "login"    -> {<<"email", Mailbox[r.email]>>, <<"ip", r.ip>>}
      [] OTHER               -> {<<"user", r.user>>}

\* verify_jwt, without leeway.
Valid(token) == token.exp >= clock

Goes(h, next) == step' = [step EXCEPT ![h] = next] /\ UNCHANGED <<request, now, old>>

Answers(h) ==
    /\ step' = [step EXCEPT ![h] = "idle"]
    /\ request' = [request EXCEPT ![h] = NoRequest]
    /\ now' = [now EXCEPT ![h] = 0]
    /\ old' = [old EXCEPT ![h] = Zero]

\* A request arrives; what needs a token has it verified at once.
Arrive(h) ==
    /\ step[h] = "idle" /\ left.requests > 0
    /\ left' = [left EXCEPT !.requests = @ - 1]
    /\ step' = [step EXCEPT ![h] = "charge"]
    /\ now' = [now EXCEPT ![h] = clock]
    /\ UNCHANGED <<clock, shared, old, tokens, history>>

Register(h, email, ip) ==
    \E password \in {"weak", "good"} :
        /\ Arrive(h)
        /\ request' = [request EXCEPT ![h] =
              [kind |-> "register", email |-> email, ip |-> ip, password |-> password]]
Login(h, email, ip) ==
    \E password \in {"wrong", "good"} :
        /\ Arrive(h)
        /\ request' = [request EXCEPT ![h] =
              [kind |-> "login", email |-> email, ip |-> ip, password |-> password]]
PlaceOrder(h, token) ==
    /\ Valid(token) /\ Arrive(h)
    /\ request' = [request EXCEPT ![h] = [kind |-> "place", user |-> token.user]]
ChangeOrder(h, token) ==
    /\ Valid(token) /\ Arrive(h)
    /\ request' = [request EXCEPT ![h] = [kind |-> "change", user |-> token.user]]

\* Under the lock.  Refused with 429, or on to what the request is about.  A
\* request to change an order is Server's from here on; an order is once it has
\* its id, but its client id or its symbol may be refused before that.
ChargeBuckets(h) ==
    LET r == request[h]
        ok == \A key \in KeysOf(r) : Allows(key, now[h])
    IN  /\ step[h] = "charge"
        /\ Charge(KeysOf(r), now[h])
        /\ IF ~ok \/ (r.kind = "register" /\ r.password = "weak") THEN Answers(h)
           ELSE CASE r.kind = "change"   -> Answers(h)
                  [] r.kind = "login"    -> Goes(h, "select")
                  [] r.kind = "place"    -> Goes(h, "load") \/ Answers(h)
                  [] OTHER               -> Goes(h, "load")
        /\ UNCHANGED <<clock, generator, users, tokens, issued, latest, left>>

\* next_id reads clock and state, and spins while the sequence is used up.  A
\* clock read some time before the state is as one set back since.
LoadState(h) ==
    /\ step[h] = "load"
    /\ ~Exhausted(generator, clock)
    /\ step' = [step EXCEPT ![h] = "swap"]
    /\ now' = [now EXCEPT ![h] = clock]
    /\ old' = [old EXCEPT ![h] = generator]
    /\ UNCHANGED <<clock, shared, request, tokens, history, left>>

\* Mutant: the state is stored, not compared and exchanged.
BlindStoreMutant(h) == TRUE
Unchanged(h) == generator = old[h]

\* compare_exchange: another handler may have taken an id since.
SwapState(h) ==
    LET id == NextId(old[h], now[h])
    IN  /\ step[h] = "swap"
        /\ IF Unchanged(h)
           THEN /\ generator' = id
                /\ issued' = Append(issued, id)
                /\ IF request[h].kind = "place" THEN Answers(h)
                   ELSE /\ step' = [step EXCEPT ![h] = "insert"]
                        /\ old' = [old EXCEPT ![h] = id]
                        /\ UNCHANGED <<request, now>>
           ELSE Goes(h, "load") /\ UNCHANGED <<generator, issued>>
        /\ UNCHANGED <<clock, buckets, users, tokens, admitted, latest, left>>

\* INSERT .. ON CONFLICT (email) DO NOTHING: 201, or 409.  The id is the primary
\* key: one that is there already, of an earlier boot, fails the statement, and
\* so may the database.
InsertUser(h) ==
    LET mailbox == Mailbox[request[h].email]
        free == mailbox \notin DOMAIN users /\ \A m \in DOMAIN users : users[m].id # old[h]
        row == mailbox :> [id |-> old[h], password |-> request[h].password]
    IN  /\ step[h] = "insert"
        /\ users' \in {users} \cup (IF free THEN {row @@ users} ELSE {})
        /\ Answers(h)
        /\ UNCHANGED <<clock, generator, buckets, tokens, history, left>>

\* login_user: the row, its password, and a token that bears its id.
SelectUser(h) ==
    LET mailbox == Mailbox[request[h].email]
        known == /\ mailbox \in DOMAIN users
                 /\ users[mailbox].password = request[h].password
        token == [user |-> users[mailbox].id, exp |-> clock + Expiry]
    IN  /\ step[h] = "select"
        /\ tokens' \in {tokens} \cup (IF known THEN {tokens \cup {token}} ELSE {})
        /\ Answers(h)
        /\ UNCHANGED <<clock, shared, history, left>>

-----------------------------------------------------------------------------
(* Around it.                                                              *)

Tick ==
    /\ left.ticks > 0
    /\ clock' = clock + 1
    /\ latest' = IF clock' > latest THEN clock' ELSE latest
    /\ left' = [left EXCEPT !.ticks = @ - 1]
    /\ UNCHANGED <<shared, handlerVars, tokens, issued, admitted>>

\* The clock is set back.
StepBack ==
    /\ left.ticks > 0 /\ clock > 1
    /\ clock' = clock - 1
    /\ left' = [left EXCEPT !.ticks = @ - 1]
    /\ UNCHANGED <<shared, handlerVars, tokens, history>>

\* Generator and buckets are the process's; table and tokens outlive it.
Restart ==
    /\ left.restarts > 0
    /\ generator' = Zero /\ buckets' = << >>
    /\ step' = [h \in Handlers |-> "idle"]
    /\ request' = [h \in Handlers |-> NoRequest]
    /\ now' = [h \in Handlers |-> 0]
    /\ old' = [h \in Handlers |-> Zero]
    /\ issued' = << >> /\ admitted' = << >>
    /\ left' = [left EXCEPT !.restarts = @ - 1]
    /\ UNCHANGED <<clock, users, tokens, latest>>

GatewayNext ==
    \/ \E h \in Handlers, email \in Emails, ip \in IPs :
          Register(h, email, ip) \/ Login(h, email, ip)
    \/ \E h \in Handlers, token \in tokens : PlaceOrder(h, token) \/ ChangeOrder(h, token)
    \/ \E h \in Handlers :
          \/ ChargeBuckets(h) \/ LoadState(h) \/ SwapState(h) \/ InsertUser(h) \/ SelectUser(h)
    \/ Tick \/ StepBack \/ Restart

GatewaySpec == GatewayInit /\ [][GatewayNext]_gatewayVars

-----------------------------------------------------------------------------
(* Properties.                                                             *)

\* exg-common/src/ids.rs:143 says of SnowflakeGen: "Monotonically increasing
\* within a single node".  Within one boot it is: handlers that race for an
\* id, a sequence used up and a clock set back never yield an id twice, or a
\* lower one after a higher one.
IdsIncrease ==
    \A i, j \in DOMAIN issued : i < j => IdBelow(issued[i], issued[j])

\* However its requests race for the limiter's lock and whatever is done to
\* the clock, no key is let in more often than its bucket held at first and
\* the time that really passed has refilled.
AdmissionBounded ==
    \A key \in DOMAIN admitted :
        admitted[key].count * TokenCost
            <= MaxTokens * TokenCost + (latest - admitted[key].since) * RefillPerTick
=============================================================================
