-------------------------------- MODULE Crawl --------------------------------
(***************************************************************************)
(* What a crawl of a Facebook page answers: the posts the sidecar has      *)
(* gathered, cut at a date and at a number, twice: by the sidecar          *)
(* (sidecar/src/scraper.js, sort-filter.js) and again by the server        *)
(* (service/crawler.go, service/repost_v2.go, handlers/repost.go).         *)
(* Pure operators; RepostPlanning uses them.                               *)
(***************************************************************************)
EXTENDS Integers, Sequences, FiniteSets, SequencesExt

CONSTANTS
  Posts,     \* posts of crawled pages
  Times,     \* the times they can carry, and requests can name
  PostedAt,  \* the time of each post, or Never when it cannot be parsed
  Never,     \* no time
  Days,      \* the dates that requests name
  DayLength  \* so many units of time are a day

ASSUME CrawlAssumption ==
  /\ Times \subseteq Int /\ Never \notin Int /\ Days \subseteq Int
  /\ PostedAt \in [Posts -> Times \cup {Never}]
  /\ DayLength \in Nat \ {0}

(* parseUntilDate: a date stands for the midnight that ends it; a full time*)
(* is taken as it is.                                                      *)
ParseUntilDate(day) == (day + 1) * DayLength

(* The field untilDate of a request, or its absence.                       *)
Untils == {ParseUntilDate(day) : day \in Days} \cup Times \cup {Never}

Dated(p) == PostedAt[p] # Never

(* t.After(until): the moment itself still counts.                         *)
NewerThan(p, until) == Dated(p) /\ PostedAt[p] > until

(* Breakage of Before: posts without a time come first.                    *)
BeforeUndatedFirst(p, r) ==
  IF Dated(p) /\ Dated(r) THEN PostedAt[p] > PostedAt[r] ELSE ~Dated(p) /\ Dated(r)

(* Newest first; what cannot be dated goes last.                           *)
Before(p, r) ==
  IF Dated(p) /\ Dated(r) THEN PostedAt[p] > PostedAt[r] ELSE Dated(p) /\ ~Dated(r)

Take(s, limit) == IF limit > 0 /\ Len(s) > limit THEN SubSeq(s, 1, limit) ELSE s

(* The post at i goes before the one at j; equals stay in their order.     *)
Sooner(s, i, j) == Before(s[i], s[j]) \/ (~Before(s[j], s[i]) /\ i < j)

(* sort.SliceStable: the posts at the positions S.                         *)
StableSort(s, S) ==
  LET order == CHOOSE f \in [1 .. Cardinality(S) -> S] :
                 \A i, j \in DOMAIN f : i < j => Sooner(s, f[i], f[j])
  IN [i \in 1 .. Cardinality(S) |-> s[order[i]]]

Cut(s, limit, until) ==
  Take(StableSort(s, {i \in DOMAIN s : ~NewerThan(s[i], until)}), limit)

(* Without a date the order of the page is kept, and its first posts.      *)
FilterAndLimitCrawledPosts(s, limit, until) ==
  IF until = Never THEN Take(s, limit) ELSE Cut(s, limit, until)

(* The sidecar's own filter comes to the same.                             *)
ScrapePage(s, limit, until) ==
  IF until = Never THEN Take(s, limit) ELSE Cut(s, limit, until)

(* limit is 10 unless the request says otherwise.                          *)
CrawlPageV2(s, limit, until) ==
  FilterAndLimitCrawledPosts(ScrapePage(s, limit, until), limit, until)

-----------------------------------------------------------------------------
(* The reference: T answers a crawl of the posts s for limit and until.    *)

Answers(t, s, limit, until) ==
  LET In == ToSet(s)  Out == ToSet(t) IN
  /\ Out \subseteq In /\ IsInjective(t)
  /\ limit > 0 => Len(t) <= limit
  /\ IF until = Never
     THEN t = SubSeq(s, 1, Len(t)) /\ (Len(t) = Len(s) \/ Len(t) = limit)
     ELSE /\ \A p \in Out : PostedAt[p] = Never \/ PostedAt[p] <= until
          /\ \A p \in In \ Out :
               \/ PostedAt[p] # Never /\ PostedAt[p] > until
               \/ /\ Len(t) = limit
                  /\ \A r \in Out : PostedAt[r] = Never => PostedAt[p] = Never
                  /\ PostedAt[p] # Never =>
                       \A r \in Out : PostedAt[r] # Never => PostedAt[r] >= PostedAt[p]
          /\ \A i, j \in 1 .. Len(t) :
               i < j /\ PostedAt[t[j]] # Never =>
                 PostedAt[t[i]] # Never /\ PostedAt[t[i]] >= PostedAt[t[j]]
=============================================================================
