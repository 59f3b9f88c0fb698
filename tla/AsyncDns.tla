------------------------------ MODULE AsyncDns ------------------------------
(***************************************************************************)
(* The asynchronous resolver: queries that are sent over UDP and retried,  *)
(* connections that wait for them, and the cache of counted results.       *)
(*                                                                         *)
(* All connections ask for one name, or give a numeric address.  A request *)
(* may be lost, and answered late; an answer whose tid belongs to no query *)
(* is dropped, so requests of a query go with it.  A build without IPv6    *)
(* asks for "A" only, one with IPv6 for both families.                     *)
(*                                                                         *)
(* Everything runs in the service thread.  The pass of the WRITEABLE       *)
(* callback over the queries is one action for each query.                 *)
(***************************************************************************)
EXTENDS Integers, Sequences, FiniteSets, FiniteSetsExt, Functions

CONSTANTS Wsis,         \* connections that need an address
          Queries,      \* query objects: how many may be under way at once
          Builds,       \* the families builds ask for
          Rand,         \* what lws_get_random() gives for a tid
          Retries,      \* entries of the retry table, all concealed
          Recursions,   \* DNS_RECURSION_LIMIT
          MaxCached,    \* MAX_CACHE_ENTRIES
          MaxEntries,   \* cache entries that fit in memory
          Rare          \* what else happens: "bad" answers that do not parse,
                        \* CNAMEs too "deep" or no tid for the next name, and
                        \* "requery": a callback told of a failure asks again

ASSUME AsyncDnsAssumption ==
  /\ IsFiniteSet(Wsis)
  /\ Builds \subseteq {{"A"}, {"A", "AAAA"}}
  /\ Rand \subseteq Nat /\ \A t \in Rand : t - (t % 2) \in Rand
  /\ {Retries, Recursions, MaxCached, MaxEntries} \subseteq Nat \ {0}
  /\ MaxCached > 1
  /\ Rare \subseteq {"bad", "deep", "requery"}

NoQuery == "none"
Lost == "lost"
Leaked == "leaked"
ASSUME NoQueryAssumption == {NoQuery, Lost, Leaked} \cap Queries = {}

VARIABLES
  fam,      \* the families of this build
  server,   \* dns->wsi: "up", "none" (NULL), "crashed" when NULL was used
  want,     \* WRITEABLE was asked for on it
  q,        \* the query objects there are
  waiting,  \* dns->waiting, newest first
  loop,     \* queries the WRITEABLE callback has still to visit
  net,      \* requests that may be answered: [tid, f, n]
  ent,      \* the cache entries there are
  cached,   \* dns->cached, last used first
  bound,    \* the query whose list each connection is on, NoQuery, Lost: the
            \* query was freed without taking it off, or Leaked: the query was
            \* given up before anybody knew of it, and is not freed
  hold,     \* the entry whose results each connection keeps, or NoEntry
  dangling  \* a pointer to a freed entry is left, because it "expired", was
            \* "trimmed", or its query was "renamed": history, for nothing the
            \* code does from then on is defined

dnsVars == <<fam, server, want, q, waiting, loop, net, ent, cached, bound, hold, dangling>>

Entries == 1 .. MaxEntries
NoEntry == 0
Families == {"A", "AAAA"}
QueryRec == [tid : Rand, alias : BOOLEAN, asked : BOOLEAN, got : SUBSET Families,
             sent : [Families -> Nat], retry : Nat, sul : BOOLEAN, rec : Nat,
             first : Entries \cup {NoEntry}, last : Entries \cup {NoEntry}]

EntryRec == [named : BOOLEAN, res : {"none", "own", "chain"}, inc : BOOLEAN,
             ref : Nat, chain : BOOLEAN]

DnsInit ==
  /\ fam \in Builds
  /\ server \in {"up", "none"}
  /\ want = FALSE
  /\ q = [i \in {} |-> {}]
  /\ waiting = <<>>
  /\ loop = <<>>
  /\ net = {}
  /\ ent = [c \in {} |-> {}]
  /\ cached = <<>>
  /\ bound = [w \in Wsis |-> NoQuery]
  /\ hold = [w \in Wsis |-> NoEntry]
  /\ dangling = "no"

-----------------------------------------------------------------------------
Running == server # "crashed" /\ dangling = "no"

Waiters(i) == {w \in Wsis : bound[w] = i}
Ongoing == DOMAIN q
Without(list, x) ==
  LET at == CHOOSE k \in DOMAIN list : list[k] = x
  IN  IF x \notin Range(list) THEN list
      ELSE SubSeq(list, 1, at - 1) \o SubSeq(list, at + 1, Len(list))
Even(tid) == tid - (tid % 2)

(* requests of query i nobody else has the tid of *)
Abandon(requests, i) ==
  {r \in requests : r.tid # q[i].tid \/ \E j \in Ongoing \ {i} : q[j].tid = r.tid}

(* lws_adns_q_destroy(): it knows nothing of who waits *)
lws_adns_q_destroy(i) ==
  /\ q' = Restrict(q, Ongoing \ {i})
  /\ waiting' = Without(waiting, i)
  /\ net' = Abandon(net, i)

Room == Entries \ DOMAIN ent                \* memory for one more
FreeEntry == Min(Room)

(* one name only: a query that asks for an alias by now is not found *)
lws_adns_get_query == {i \in Ongoing : ~q[i].alias}

(* by tid, b0 being the family *)
ByTid(tid) ==
  waiting[CHOOSE k \in DOMAIN waiting :
            /\ q[waiting[k]].tid = tid
            /\ \A j \in 1 .. (k - 1) : q[waiting[j]].tid # tid]

(* the name is looked for behind the entry, where results are if it has any *)
Findable(c) == ~ent[c].inc /\ ent[c].named

lws_adns_get_cache ==
  {cached[k] : k \in {k \in DOMAIN cached :
     Findable(cached[k]) /\ \A j \in 1 .. (k - 1) : ~Findable(cached[j])}}

(* Mutant: the oldest entry goes although it is in use. *)
lws_async_dns_trim_cache_Any(list) ==
  IF Len(list) + 1 < MaxCached THEN {} ELSE {list[Len(list)]}

(* the entry that makes room, if it is not in use *)
lws_async_dns_trim_cache(list) ==
  IF Len(list) + 1 < MaxCached \/ ent[list[Len(list)]].ref > 0 THEN {}
  ELSE {list[Len(list)]}

(* the entries that queries are filling *)
Filling == {q[i].first : i \in Ongoing}

(* a new entry at the head of the cache, after a trim, which asks nobody   *)
(* who is filling the entry that goes                                      *)
AddToCache(c, entry) ==
  LET old == lws_async_dns_trim_cache(cached)
  IN  /\ dangling' = IF old \cap Filling = {} THEN "no" ELSE "trimmed"
      /\ cached' = <<c>> \o SubSeq(cached, 1, Len(cached) - Cardinality(old))
      /\ ent' = [d \in (DOMAIN ent \ old) \cup {c} |-> IF d = c THEN entry ELSE ent[d]]

(* Everybody on the list of query i is told, with results of entry c if    *)
(* there are any, which each of them then keeps; back is who asks for the  *)
(* name again from its callback and comes to the same list                 *)
lws_async_dns_complete(i, c, res, back) ==
  /\ bound' = [w \in Wsis |-> IF w \in back THEN Lost
                              ELSE IF w \in Waiters(i) THEN NoQuery ELSE bound[w]]
  /\ hold' = [w \in Wsis |-> IF w \in Waiters(i) \ back /\ res # "none" THEN c ELSE hold[w]]

(* Who that can be: it takes a failure, no such name in the cache and a    *)
(* query that has not gone on for an alias, else the callback begins a     *)
(* query of its own, which QueryNew() stands for                           *)
Back(i, found) ==
  IF "requery" \in Rare /\ ~found /\ lws_adns_get_cache = {} /\ ~q[i].alias
  THEN SUBSET {w \in Wsis : hold[w] = NoEntry /\ (bound[w] = NoQuery \/ bound[w] = i)}
  ELSE {{}}

-----------------------------------------------------------------------------
(* lws_async_dns_query() of connection w *)

Idle(w) == Running /\ loop = <<>> /\ bound[w] = NoQuery /\ hold[w] = NoEntry

(* the results of an earlier query *)
QueryCached(w) ==
  /\ Idle(w)
  /\ \E c \in lws_adns_get_cache :
       /\ cached' = <<c>> \o Without(cached, c)
       /\ IF ent[c].res = "none" THEN UNCHANGED <<ent, hold>>
          ELSE /\ ent' = [ent EXCEPT ![c].ref = @ + 1]
               /\ hold' = [hold EXCEPT ![w] = c]
  /\ UNCHANGED <<fam, server, want, q, waiting, loop, net, bound, dangling>>

(* a numeric address makes an entry of its own *)
QueryNumeric(w) ==
  /\ Idle(w)
  /\ Room # {}
  /\ hold' = [hold EXCEPT ![w] = FreeEntry]
  /\ AddToCache(FreeEntry, [named |-> FALSE, res |-> "own", inc |-> FALSE,
                                 ref |-> 1, chain |-> FALSE])
  /\ UNCHANGED <<fam, server, want, q, waiting, loop, net, bound>>

(* lws_async_dns_init() when there is no server, and succeeds *)
lws_async_dns_init == server \in {"up", "none"} /\ server' = "up"

(* it fails: the connection is told, and nothing has changed *)
QueryFails(w) ==
  /\ Idle(w)
  /\ lws_adns_get_cache = {} /\ server = "none"
  /\ UNCHANGED dnsVars

QueryPiggyback(w) ==
  /\ Idle(w)
  /\ lws_adns_get_cache = {} /\ lws_adns_get_query # {}
  /\ lws_async_dns_init
  /\ \E i \in lws_adns_get_query : bound' = [bound EXCEPT ![w] = i]
  /\ UNCHANGED <<fam, want, q, waiting, loop, net, ent, cached, hold, dangling>>

(* lws_async_dns_get_new_tid(): any random value no query has *)
lws_async_dns_get_new_tid == {Even(t) : t \in {t \in Rand : \A i \in Ongoing : q[i].tid # t}}

NewQuery(t) ==
  [tid |-> t, alias |-> FALSE, asked |-> FALSE, got |-> {},
   sent |-> [f \in Families |-> 0], retry |-> 1, sul |-> TRUE, rec |-> 0,
   first |-> NoEntry, last |-> NoEntry]

(* a new query is first sent when its timer runs out *)
QueryNew(w) ==
  /\ Idle(w)
  /\ lws_adns_get_cache = {} /\ lws_adns_get_query = {}
  /\ lws_async_dns_init
  /\ \E i \in Queries \ Ongoing, t \in lws_async_dns_get_new_tid :
       /\ q' = [j \in Ongoing \cup {i} |-> IF j = i THEN NewQuery(t) ELSE q[j]]
       /\ waiting' = <<i>> \o waiting
       /\ bound' = [bound EXCEPT ![w] = i]
  /\ want' = TRUE
  /\ UNCHANGED <<fam, loop, net, ent, cached, hold, dangling>>

(* No tid is to be had: the connection is told of the failure, and stays   *)
(* on the list of a query that is neither registered nor freed.            *)
QueryNoTid(w) ==
  /\ Idle(w)
  /\ lws_adns_get_cache = {} /\ lws_adns_get_query = {}
  /\ lws_async_dns_init
  /\ bound' = [bound EXCEPT ![w] = Leaked]
  /\ UNCHANGED <<fam, want, q, waiting, loop, net, ent, cached, hold, dangling>>

(* close of a connection: lws_async_dns_cancel() and lws_addrinfo_clean() *)
lws_async_dns_cancel(w) ==
  IF bound[w] \in Queries /\ Waiters(bound[w]) = {w} THEN lws_adns_q_destroy(bound[w])
  ELSE UNCHANGED <<q, waiting, net>>

(* results in the second answer lead back to the entry of the first *)
lws_async_dns_freeaddrinfo(w) ==
  IF hold[w] \notin DOMAIN ent THEN UNCHANGED ent
  ELSE ent' = [ent EXCEPT ![hold[w]].ref = @ - 1]

Close(w) ==
  /\ Running /\ loop = <<>>
  /\ bound[w] # NoQuery \/ hold[w] # NoEntry
  /\ lws_async_dns_cancel(w)
  /\ lws_async_dns_freeaddrinfo(w)
  /\ bound' = [bound EXCEPT ![w] = NoQuery]
  /\ hold' = [hold EXCEPT ![w] = NoEntry]
  /\ UNCHANGED <<fam, server, want, loop, cached, dangling>>

-----------------------------------------------------------------------------
(* Sending *)

(* Mutant: the retry timer does not ask for WRITEABLE. *)
lws_async_dns_sul_cb_retry_Quiet(i) ==
  /\ Running /\ loop = <<>>
  /\ i \in Ongoing /\ q[i].sul
  /\ q' = [q EXCEPT ![i].sul = FALSE]
  /\ UNCHANGED <<fam, server, want, waiting, loop, net, ent, cached, bound, hold, dangling>>

lws_async_dns_sul_cb_retry(i) ==
  /\ Running /\ loop = <<>>
  /\ i \in Ongoing /\ q[i].sul
  /\ q' = [q EXCEPT ![i].sul = FALSE]
  /\ IF server = "up" THEN want' = TRUE /\ UNCHANGED server
                      ELSE server' = "crashed" /\ UNCHANGED want
  /\ UNCHANGED <<fam, waiting, loop, net, ent, cached, bound, hold, dangling>>

(* the WRITEABLE callback of the server connection goes through the list *)
callback_async_dns ==
  /\ Running /\ server = "up" /\ want /\ loop = <<>>
  /\ want' = FALSE
  /\ loop' = waiting
  /\ UNCHANGED <<fam, server, q, waiting, net, ent, cached, bound, hold, dangling>>

NotDue(i) == i \notin Ongoing \/ q[i].sul \/ (q[i].asked /\ q[i].got = fam)

Skip ==
  /\ Running /\ loop # <<>> /\ NotDue(Head(loop))
  /\ loop' = Tail(loop)
  /\ UNCHANGED <<fam, server, want, q, waiting, net, ent, cached, bound, hold, dangling>>

(* alternate until one has answered, then the other *)
Which(i) ==
  IF fam = {"A"} THEN "A"
  ELSE IF q[i].got = {} THEN (IF q[i].sent["A"] >= q[i].sent["AAAA"] THEN "AAAA" ELSE "A")
  ELSE CHOOSE f \in fam : f \notin q[i].got

(* Mutant: the retries are not counted. *)
WriteRequest_Endless ==
  /\ Running /\ loop # <<>> /\ ~NotDue(Head(loop))
  /\ LET i == Head(loop)
     IN  /\ q[i].retry < Retries
         /\ q' = [q EXCEPT ![i].sul = TRUE, ![i].asked = TRUE]
         /\ net' = net \cup {[tid |-> q[i].tid, f |-> Which(i), n |-> q[i].retry]}
  /\ want' = (want \/ server = "up")
  /\ loop' = Tail(loop)
  /\ UNCHANGED <<fam, server, waiting, ent, cached, bound, hold, dangling>>

(* lws_async_dns_writeable(): the next retry is scheduled, then a request  *)
(* is written, and WRITEABLE asked for, which is in vain if an earlier     *)
(* query of the same pass dropped the server                               *)
WriteRequest ==
  /\ Running /\ loop # <<>> /\ ~NotDue(Head(loop))
  /\ LET i == Head(loop)
     IN  /\ q[i].retry < Retries
         /\ q' = [q EXCEPT ![i].retry = @ + 1, ![i].sul = TRUE, ![i].asked = TRUE,
                           ![i].sent[Which(i)] = IF q[i].got = {} THEN @ + 1 ELSE @]
         /\ net' = net \cup {[tid |-> q[i].tid, f |-> Which(i), n |-> q[i].retry]}
  /\ want' = (want \/ server = "up")
  /\ loop' = Tail(loop)
  /\ UNCHANGED <<fam, server, waiting, ent, cached, bound, hold, dangling>>

(* what a failed query leaves: the entry of a first answer is purged *)
Purge(i) ==
  /\ ent' = Restrict(ent, DOMAIN ent \ {q[i].first})
  /\ cached' = Without(cached, q[i].first)

(* the connection to it is closed; somebody who asks again, again, opens   *)
(* the next one                                                            *)
lws_async_dns_drop_server(again) ==
  /\ server' = IF server # "up" THEN "crashed" ELSE IF again THEN "up" ELSE "none"
  /\ want' = FALSE

(* the retries are used up, which also drops the server, or the write did  *)
(* not go                                                                  *)
WriteFails ==
  /\ Running /\ loop # <<>> /\ ~NotDue(Head(loop))
  /\ LET i == Head(loop)
     IN  \E back \in Back(i, FALSE) :
           /\ \/ q[i].retry >= Retries /\ lws_async_dns_drop_server(back # {})
              \/ q[i].retry < Retries /\ UNCHANGED <<server, want>>
           /\ Purge(i)
           /\ lws_async_dns_complete(i, NoEntry, "none", back)
           /\ lws_adns_q_destroy(i)
  /\ loop' = Tail(loop)
  /\ UNCHANGED <<fam, dangling>>

-----------------------------------------------------------------------------
(* lws_adns_parse_udp() of an answer to request r *)

Answered(r) == Running /\ loop = <<>> /\ server = "up" /\ r \in net

(* fail_out: a duplicate, an answer that does not parse, CNAMEs too deep:  *)
(* the query is freed and nobody is told                                   *)
FailOut(i) ==
  /\ lws_adns_q_destroy(i)
  /\ bound' = [w \in Wsis |-> IF bound[w] = i THEN Lost ELSE bound[w]]
  /\ UNCHANGED <<fam, server, want, loop, ent, cached, hold, dangling>>

AnswerRefused(r) ==
  /\ Answered(r)
  /\ r.f \in q[ByTid(r.tid)].got \/ "bad" \in Rare
  /\ FailOut(ByTid(r.tid))

(* the query goes on for an alias *)
Renamed(i, t) ==
  [q[i] EXCEPT !.tid = t, !.asked = FALSE, !.got = {}, !.sent = [f \in Families |-> 0],
               !.rec = @ + 1, !.first = NoEntry, !.alias = TRUE]

(* A CNAME and nothing else: ask again, for that name.  The results of a   *)
(* first answer go, but not q->last, which leads into them.                *)
AnswerCname(r) ==
  /\ Answered(r)
  /\ LET i == ByTid(r.tid)
     IN  /\ r.f \notin q[i].got
         /\ \/ "deep" \in Rare /\ FailOut(i)
            \/ /\ q[i].rec + 1 < Recursions
               /\ \E t \in lws_async_dns_get_new_tid : q' = [q EXCEPT ![i] = Renamed(i, t)]
               /\ net' = Abandon(net, i)
               /\ Purge(i)
               /\ want' = TRUE
               /\ dangling' = IF q[i].last = NoEntry THEN "no" ELSE "renamed"
               /\ UNCHANGED <<fam, server, waiting, loop, bound, hold>>

(* an answer that is the last one: everyone is told *)
Finish(i, c, entry) ==
  \E back \in Back(i, entry.res # "none" \/ (~entry.inc /\ entry.named)) :
    /\ lws_async_dns_complete(i, c, entry.res, back)
    /\ lws_adns_q_destroy(i)

(* told records a reference for each connection that takes results *)
Told(i, entry) ==
  IF entry.res = "none" THEN entry ELSE [entry EXCEPT !.ref = @ + Cardinality(Waiters(i))]

(* The first one becomes an entry of the cache, with its name where it is  *)
(* looked for only if there were no records                                *)
FirstAnswer(r, records) ==
  LET i == ByTid(r.tid)
  IN  /\ q[i].first = NoEntry
      /\ Room # {}
      /\ LET c == FreeEntry
             entry == [named |-> ~records, res |-> IF records THEN "own" ELSE "none",
                       inc |-> {r.f} # fam, ref |-> 0, chain |-> FALSE]
         IN  IF {r.f} # fam
             THEN /\ AddToCache(c, entry)
                  /\ q' = [q EXCEPT ![i].got = {r.f}, ![i].first = c,
                                    ![i].last = IF records THEN c ELSE @]
                  /\ net' = net \ {r}
                  /\ UNCHANGED <<waiting, bound, hold>>
             ELSE /\ AddToCache(c, Told(i, entry))
                  /\ Finish(i, c, entry)

(* The second one is chained to it, whose incomplete mark stays *)
SecondAnswer(r, records) ==
  LET i == ByTid(r.tid)
  IN  /\ q[i].first # NoEntry
      /\ LET c == q[i].first
             res == IF records /\ q[i].last = NoEntry THEN "chain" ELSE ent[c].res
             entry == [ent[c] EXCEPT !.res = res, !.chain = TRUE]
         IN  /\ ent' = [ent EXCEPT ![c] = Told(i, entry)]
             /\ Finish(i, c, entry)
      /\ UNCHANGED <<cached, dangling>>

Answer(r, records) ==
  /\ Answered(r)
  /\ r.f \notin q[ByTid(r.tid)].got
  /\ FirstAnswer(r, records) \/ SecondAnswer(r, records)
  /\ UNCHANGED <<fam, server, want, loop>>

(* an entry is destroyed when its time is over, used or not *)
sul_cb_expire(c) ==
  /\ Running /\ loop = <<>>
  /\ c \in Range(cached)
  /\ ent' = Restrict(ent, DOMAIN ent \ {c})
  /\ cached' = Without(cached, c)
  /\ dangling' = IF ent[c].ref = 0 /\ c \notin Filling THEN "no" ELSE "expired"
  /\ UNCHANGED <<fam, server, want, q, waiting, loop, net, bound, hold>>

-----------------------------------------------------------------------------
Ask ==
  \E w \in Wsis : \/ QueryCached(w) \/ QueryNumeric(w) \/ QueryFails(w)
                  \/ QueryPiggyback(w) \/ QueryNew(w) \/ QueryNoTid(w)

Network ==
  \E r \in net : \/ AnswerRefused(r) \/ AnswerCname(r)
                 \/ \E records \in BOOLEAN : Answer(r, records)

Send == callback_async_dns \/ Skip \/ WriteRequest \/ WriteFails

Undefined == ~Running /\ UNCHANGED dnsVars

DnsNext ==
  \/ Ask \/ Network \/ Send
  \/ \E i \in Queries : lws_async_dns_sul_cb_retry(i)
  \/ \E w \in Wsis : Close(w)
  \/ \E c \in Entries : sul_cb_expire(c)
  \/ Undefined

DnsSpec == DnsInit /\ [][DnsNext]_dnsVars

(* A UDP socket becomes writable, and a timer that has run out is served   *)
(* however busy the callbacks between are; the network owes nothing.       *)
DnsFairSpec ==
  /\ DnsSpec
  /\ WF_dnsVars(Send)
  /\ \A i \in Queries : SF_dnsVars(lws_async_dns_sul_cb_retry(i))

-----------------------------------------------------------------------------
DnsTypeOK ==
  /\ fam \in Builds
  /\ server \in {"up", "none", "crashed"}
  /\ want \in BOOLEAN
  /\ Ongoing \subseteq Queries /\ \A i \in Ongoing : q[i] \in QueryRec
  /\ waiting \in Seq(Queries) /\ loop \in Seq(Queries)
  /\ net \subseteq [tid : Rand, f : Families, n : 1 .. Retries]
  /\ DOMAIN ent \subseteq Entries /\ \A c \in DOMAIN ent : ent[c] \in EntryRec
  /\ cached \in Seq(Entries)
  /\ bound \in [Wsis -> Queries \cup {NoQuery, Lost, Leaked}]
  /\ hold \in [Wsis -> Entries \cup {NoEntry}]
  /\ dangling \in {"no", "expired", "trimmed", "renamed"}

(* The reference count of a cache entry is the number of connections that  *)
(* keep its results, through answers in any order, chained entries, trims  *)
(* and closes: lws_async_dns_freeaddrinfo() finds the right entry.         *)
CountsAreExact ==
  \A c \in DOMAIN ent : ent[c].ref = Cardinality({w \in Wsis : hold[w] = c})

(* Results in use, and the entry a query is still filling, are not freed.  *)
PointersAreLive ==
  /\ \A w \in Wsis : hold[w] # NoEntry => hold[w] \in DOMAIN ent
  /\ \A i \in Ongoing : /\ q[i].first # NoEntry => q[i].first \in DOMAIN ent
                        /\ q[i].last # NoEntry => q[i].last \in DOMAIN ent

(* Nobody gets half of an answer from the cache: the entry a query is      *)
(* still filling is not found there (c->incomplete).                       *)
CacheIsComplete ==
  \A i \in Ongoing : q[i].first # NoEntry => ~Findable(q[i].first)

(* The cache and what points into it are sound through answers, trims and  *)
(* closes in any order, until one of three things has happened.  Against   *)
(* "Cached items with a nonzero reference count can't be destroyed from    *)
(* the cache" (README.async-dns.md:51) an entry expires at its time        *)
(* whatever its count is.  lws_async_dns_trim_cache() takes an entry with  *)
(* no reference although a query is filling it, as a numeric lookup        *)
(* between the two answers makes it do.  And a CNAME in the second answer  *)
(* leaves q->last in the freed results of the first.                       *)
CacheIsSound ==
  DnsTypeOK /\ (dangling = "no" => CountsAreExact /\ PointersAreLive /\ CacheIsComplete)

(* No connection is left on the list of a query that was freed: duplicates *)
(* "that have already happened" are dropped, and the query goes on.        *)
NobodyIsLost == \A w \in Wsis : bound[w] # Lost

(* Nobody waits for something that nothing drives: a connection is on the  *)
(* list of a query that goes on, which has a timer, a visit of the pass or *)
(* WRITEABLE of a server that is there to come, and a query that nobody    *)
(* waits for any more is gone.  Through lost and refused answers, aliases, *)
(* dropped servers and closes, whose callbacks ask again.                  *)
WaitersAreDriven ==
  Running =>
    /\ \A w \in Wsis : bound[w] \in Queries => bound[w] \in Ongoing
    /\ \A i \in Ongoing : /\ Waiters(i) # {}
                          /\ q[i].sul \/ i \in Range(loop) \/ (want /\ server = "up")

(* No query goes on for ever: whatever the network loses, every wait comes *)
(* to its end.  The connection is told of results or of the failure after  *)
(* the last retry, or closes; or, which is no good end, its query is freed *)
(* under it at fail_out or as it asks again (Lost), or the behaviour is    *)
(* undefined by then.                                                      *)
WaitsEnd ==
  \A w \in Wsis : bound[w] \in Queries ~> bound[w] \in {NoQuery, Lost} \/ ~Running
=============================================================================
