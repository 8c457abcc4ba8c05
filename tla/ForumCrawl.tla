----------------------------- MODULE ForumCrawl -----------------------------
(***************************************************************************)
(* How a forum collector reads a board.                                    *)
(*                                                                         *)
(* A board has no events: the collector polls it, one request at a time,   *)
(* hours for a sweep.  It reads the first page of every monitored category *)
(* each time, the older pages once, forward from a cursor in the database; *)
(* between sweeps it carries out what operators asked for: a reply, which  *)
(* unlocks a thread, or a thread in full.  The board moves under it: a     *)
(* post takes its thread to the top, threads are opened and moved.         *)
(*                                                                         *)
(* One collector, one post on each page of a thread.  Left out: actors,    *)
(* titles and last-seen columns; posts without own words, which are not    *)
(* published; the threads pinned in the identity, read like listed ones;   *)
(* _max_category_pages, 0 unless set; the boot canary.                     *)
(***************************************************************************)
EXTENDS Naturals, FiniteSets

CONSTANTS
  Categories,
  Threads,
  Numbered,        \* threads whose address carries their tid
  FirstRank,       \* threads by last post, 1 is the latest
  FirstHome,       \* where they are; Nil for those still to be opened
  FirstLength,     \* how many posts they have
  FirstMonitored,  \* categories monitored from the start
  MaxLength,       \* bound: posts of a thread
  PageSize,        \* threads on a page of a category
  MaxThreadPages,  \* _max_thread_pages: how deep a sweep reads a thread
  Requests,        \* of operators, each made once
  MaxMoves,        \* bound: events on the board
  MaxFailures,     \* bound: failures and crashes
  Nil

ASSUME ForumConstants ==
  /\ IsFiniteSet(Threads) /\ Numbered \subseteq Threads
  /\ FirstRank \in [Threads -> Nat]
  /\ FirstHome \in [Threads -> Categories \cup {Nil}]
  /\ FirstMonitored \subseteq Categories
  /\ PageSize \in Nat \ {0} /\ MaxThreadPages \in Nat \ {0}
  /\ MaxLength \in Nat \ {0} /\ FirstLength \in [Threads -> 1..MaxLength]
  /\ MaxMoves \in Nat /\ MaxFailures \in Nat /\ Nil \notin Categories \cup Threads \cup Requests
  /\ Nil \notin [thread : Threads, form : {"tid", "prefixed", "plain"}]

VARIABLES
  rank, home, length,   \* the board: threads by last post, their category, their posts
  moved,                 \* threads that were moved: their address lost its section
  unlocked,              \* threads this account has replied to
  posted,                \* how often the reply of a request was posted
  monitored,             \* open memberships: the categories to read
  cursor,                \* forum_crawl_cursor: next_page, backfill_complete
  alias,                 \* forum_thread_alias: tid to key
  link,                  \* forum_thread_link: category and key
  stored,                \* rows of message, by evidence_ref: key and post
  gated,                 \* those whose body is the placeholder of a [hide] gate
  sent,                  \* published to the sensors
  request,               \* forum_reply_request, forum_backfill_request
  crawler,               \* the process: where its one coroutine is, its locals
  history,               \* for the properties: what the board or a failure cost
  count                  \* events on the board, and faults, so far

board == <<rank, home, length, moved>>
account == <<unlocked, posted>>
tables == <<alias, link, stored, gated>>
crawlVars == <<board, account, monitored, cursor, tables, sent, request, crawler, history, count>>

-----------------------------------------------------------------------------
(* The board. *)

Listed(c) == {t \in Threads : home[t] = c}
Ceil(n) == (n + PageSize - 1) \div PageSize
\* The page a thread is listed on; 0 where it is not.
PageOf(c, t) ==
  IF home[t] = c THEN Ceil(Cardinality({u \in Listed(c) : rank[u] <= rank[t]})) ELSE 0
\* thread_page_count: a page without pagination counts as one.
PageCount(c) == IF Listed(c) = {} THEN 1 ELSE Ceil(Cardinality(Listed(c)))

\* _thread_id_from_url: the tid where the address has one, else the slug.
Key(t, form) == [thread |-> t, form |-> form]
UrlKey(t) == Key(t, IF t \in Numbered THEN "tid" ELSE IF t \in moved THEN "plain" ELSE "prefixed")
\* parse_thread_links: what a page of a category links to.
Linked(c, page) == {UrlKey(t) : t \in {u \in Listed(c) : PageOf(c, u) = page}}
\* _normalize_thread_slug.
Normal(k) == IF k.form = "prefixed" THEN [k EXCEPT !.form = "plain"] ELSE k
\* showthread.php and newreply.php go by number.
Reached(k) == k.form = "tid"
Evidence(k, n) == [key |-> k, post |-> n]

NoWalk == [cat |-> Nil, page |-> 0, last |-> 0, from |-> 0, left |-> {}]
NoRead == [mode |-> "none", key |-> Nil, page |-> 0, last |-> 0, req |-> Nil]
NotRunning == [at |-> "down", swept |-> FALSE, seen |-> {}, todo |-> {}, cats |-> {},
         walk |-> NoWalk, read |-> NoRead]

CrawlInit ==
  /\ rank = FirstRank /\ home = FirstHome /\ length = FirstLength /\ moved = {}
  /\ unlocked = {} /\ posted = [r \in Requests |-> 0]
  /\ monitored = FirstMonitored
  /\ cursor = [c \in Categories |-> [next |-> 1, complete |-> FALSE]]
  /\ alias = [t \in Threads |-> Nil] /\ link = {}
  /\ stored = {} /\ gated = {} /\ sent = {}
  /\ request = [r \in Requests |-> [kind |-> Nil, key |-> Nil, state |-> "none", pages |-> 0]]
  /\ crawler = NotRunning
  /\ history = [risen |-> {}, failed |-> {}, outgrown |-> {}, nameless |-> {},
                lost |-> {}, torn |-> {}, unheard |-> {}, short |-> {}]
  /\ count = [moves |-> 0, faults |-> 0]

Moves == count.moves < MaxMoves /\ count' = [count EXCEPT !.moves = @ + 1]
Fault == count.faults < MaxFailures /\ count' = [count EXCEPT !.faults = @ + 1]

-----------------------------------------------------------------------------
(* The board moves, and operators ask. *)

\* A post takes its thread to the top.
ToTop(t) == rank' = [u \in Threads |-> IF u = t THEN 1
                                    ELSE IF rank[u] < rank[t] THEN rank[u] + 1 ELSE rank[u]]
\* History: threads that came to a page before theirs, or to another category.
Rises == {t \in Threads : \/ home'[t] # home[t]
                          \/ home[t] # Nil /\ PageOf(home[t], t)' < PageOf(home[t], t)}

NewPost(t) ==
  /\ Moves /\ home[t] # Nil /\ length[t] < MaxLength
  /\ ToTop(t) /\ length' = [length EXCEPT ![t] = @ + 1]
  /\ UNCHANGED <<home, moved, account, monitored, cursor, tables, sent, request, crawler>>
  /\ history' = [history EXCEPT !.risen = @ \cup Rises]

NewThread(t, c) ==
  /\ Moves /\ home[t] = Nil
  /\ ToTop(t) /\ home' = [home EXCEPT ![t] = c]
  /\ UNCHANGED <<length, moved, account, monitored, cursor, tables, sent, request, crawler>>
  /\ history' = [history EXCEPT !.risen = @ \cup Rises]

\* A moderator moves a thread, to Removed Content for one.
Relocates(t, c) ==
  /\ Moves /\ home[t] \notin {Nil, c}
  /\ home' = [home EXCEPT ![t] = c] /\ moved' = moved \cup {t}
  /\ UNCHANGED <<rank, length, account, monitored, cursor, tables, sent, request, crawler>>
  /\ history' = [history EXCEPT !.risen = @ \cup Rises]

\* The walk and the leave of a category by hand: groups_join, groups_leave.
Monitors(c) ==
  /\ Moves
  /\ monitored' = IF c \in monitored THEN monitored \ {c} ELSE monitored \cup {c}
  /\ UNCHANGED <<board, account, cursor, tables, sent, request, crawler, history>>

\* groups_reply, groups_backfill: on a thread that has a row.
Asks(r, kind) ==
  /\ request[r].state = "none"
  /\ \E e \in stored :
       request' = [request EXCEPT ![r] =
                     [kind |-> kind, key |-> e.key, state |-> "pending", pages |-> 0]]
  /\ UNCHANGED <<board, account, monitored, cursor, tables, sent, crawler, history, count>>

-----------------------------------------------------------------------------
(* The process and its ticks. *)

Boots ==
  /\ crawler.at = "down" /\ crawler' = [NotRunning EXCEPT !.at = "idle"]
  /\ UNCHANGED <<board, account, monitored, cursor, tables, sent, request, history, count>>

\* run_service looks at the stop event between ticks only.
Leaves ==
  /\ crawler.at = "idle" /\ Fault /\ crawler' = NotRunning
  /\ UNCHANGED <<board, account, monitored, cursor, tables, sent, request, history>>

\* The process dies; so it does when a tick raises: the database is locked where
\* nothing catches it, a publish fails.
Breaks ==
  /\ crawler.at \notin {"down", "idle"} /\ Fault /\ crawler' = NotRunning
  /\ history' = [history EXCEPT
       !.lost = @ \cup {Evidence(crawler.read.key, crawler.read.page) :
                          k \in {crawler.at} \cap {"publish"}},
       !.torn = @ \cup {r \in {crawler.read.req} \cap Requests :
                          request[r].kind = "reply" /\ posted[r] > 0}]
  /\ UNCHANGED <<board, account, monitored, cursor, tables, sent, request>>

\* Mutant of Pending: what failed is tried again.
PendingAndFailed(kind) ==
  {r \in Requests : request[r].state \in {"pending", "failed"} /\ request[r].kind = kind}

Pending(kind) == {r \in Requests : request[r].state = "pending" /\ request[r].kind = kind}

\* tick: replies first, ...
TakesReplies ==
  /\ crawler.at = "idle" /\ crawler' = [crawler EXCEPT !.at = "replies", !.todo = Pending("reply")]
  /\ UNCHANGED <<board, account, monitored, cursor, tables, sent, request, history, count>>

\* ... then threads in full, ...
TakesBackfills ==
  /\ crawler.at = "replies" /\ crawler.todo = {}
  /\ crawler' = [crawler EXCEPT !.at = "backfills", !.todo = Pending("backfill")]
  /\ UNCHANGED <<board, account, monitored, cursor, tables, sent, request, history, count>>

\* ... then a sweep, the first time, for another monitored set, or after
\* _discovery_interval, which may have passed at any time, ...
Sweeps ==
  /\ crawler.at = "backfills" /\ crawler.todo = {}
  /\ crawler' = [crawler EXCEPT !.at = "crawl", !.cats = monitored, !.swept = TRUE, !.seen = monitored]
  /\ UNCHANGED <<board, account, monitored, cursor, tables, sent, request, history, count>>

\* ... or nothing.
Rests ==
  /\ crawler.at = "backfills" /\ crawler.todo = {} /\ crawler.swept /\ crawler.seen = monitored
  /\ crawler' = [crawler EXCEPT !.at = "idle"]
  /\ UNCHANGED <<board, account, monitored, cursor, tables, sent, request, history, count>>

-----------------------------------------------------------------------------
(* _crawl_category. *)

\* Page 1 always; from where the cursor is, unless the archive is complete.
FirstPage(c, last, left) ==
  crawler' = [crawler EXCEPT !.at = "list", !.cats = @ \ {c}, !.walk =
    [cat |-> c, page |-> 1, last |-> last, left |-> left,
     from |-> IF cursor[c].complete THEN 0 ELSE IF cursor[c].next < 2 THEN 2 ELSE cursor[c].next]]

Opens(c) ==
  /\ crawler.at = "crawl" /\ c \in crawler.cats
  /\ FirstPage(c, PageCount(c), Linked(c, 1))
  /\ UNCHANGED <<board, account, monitored, cursor, tables, sent, request, history, count>>

\* An error page, or a login page: an answer like any other, with nothing on it.
OpensBlank(c) ==
  /\ crawler.at = "crawl" /\ c \in crawler.cats /\ Fault
  /\ FirstPage(c, 1, {})
  /\ UNCHANGED <<board, account, monitored, cursor, tables, sent, request, history>>

\* No answer, or a locked database: the category waits for the next sweep.
PassesOver(c) ==
  /\ crawler.at = "crawl" /\ c \in crawler.cats /\ Fault
  /\ crawler' = [crawler EXCEPT !.cats = @ \ {c}]
  /\ UNCHANGED <<board, account, monitored, cursor, tables, sent, request, history>>

EndsSweep ==
  /\ crawler.at = "crawl" /\ crawler.cats = {} /\ crawler' = [crawler EXCEPT !.at = "idle"]
  /\ UNCHANGED <<board, account, monitored, cursor, tables, sent, request, history, count>>

PageDone == crawler.at = "list" /\ crawler.walk.left = {}
\* Where the walk goes on, if it does.
TurnsTo(page) ==
  IF page # 0 /\ page <= crawler.walk.last
    THEN [crawler EXCEPT !.at = "page", !.walk.page = page]
    ELSE [crawler EXCEPT !.at = "crawl", !.walk = NoWalk]

\* Behind page 1 nothing is saved.
LeavesFirst ==
  /\ PageDone /\ crawler.walk.page = 1 /\ crawler' = TurnsTo(crawler.walk.from)
  /\ UNCHANGED <<board, account, monitored, cursor, tables, sent, request, history, count>>

SavesCursor ==
  /\ PageDone /\ crawler.walk.page > 1
  /\ LET w == crawler.walk
     IN /\ cursor' = [cursor EXCEPT ![w.cat] =
                        [next |-> w.page + 1, complete |-> w.page >= w.last]]
        /\ history' = [history EXCEPT !.outgrown = @ \cup
             {t \in Threads : w.page >= w.last /\ PageOf(w.cat, t) > w.page}]
        /\ crawler' = TurnsTo(w.page + 1)
  /\ UNCHANGED <<board, account, monitored, tables, sent, request, count>>

\* The database is locked: tick leaves the category.
SavesNothing ==
  /\ PageDone /\ crawler.walk.page > 1 /\ Fault
  /\ crawler' = [crawler EXCEPT !.at = "crawl", !.walk = NoWalk]
  /\ UNCHANGED <<board, account, monitored, cursor, tables, sent, request, history>>

\* Mutant of Turns: the cursor is saved before the page is read.
TurnsSaved ==
  /\ crawler.at = "page"
  /\ crawler' = [crawler EXCEPT !.at = "list", !.walk.left = Linked(crawler.walk.cat, crawler.walk.page)]
  /\ cursor' = [cursor EXCEPT ![crawler.walk.cat].next = crawler.walk.page + 1]
  /\ UNCHANGED <<board, account, monitored, tables, sent, request, history, count>>

Turns ==
  /\ crawler.at = "page"
  /\ crawler' = [crawler EXCEPT !.at = "list", !.walk.left = Linked(crawler.walk.cat, crawler.walk.page)]
  /\ UNCHANGED <<board, account, monitored, cursor, tables, sent, request, history, count>>

TurnsBlank ==
  /\ crawler.at = "page" /\ Fault
  /\ crawler' = [crawler EXCEPT !.at = "list"]
  /\ history' = [history EXCEPT !.failed = @ \cup
       {t \in Threads : PageOf(crawler.walk.cat, t) = crawler.walk.page}]
  /\ UNCHANGED <<board, account, monitored, cursor, tables, sent, request>>

\* No answer: the next sweep resumes here.
TurnsNot ==
  /\ crawler.at = "page" /\ Fault
  /\ cursor' = [cursor EXCEPT ![crawler.walk.cat] = [next |-> crawler.walk.page, complete |-> FALSE]]
  /\ crawler' = [crawler EXCEPT !.at = "crawl", !.walk = NoWalk]
  /\ UNCHANGED <<board, account, monitored, tables, sent, request, history>>

-----------------------------------------------------------------------------
(* _poll_thread: each thread on the page, by its address.  They are read in   *)
(* the order of the page, which is any order here: it decides nothing.        *)

Polling(a) == crawler.at = "list" /\ a \in crawler.walk.left
Reading(mode, key, page, last, req) ==
  [mode |-> mode, key |-> key, page |-> page, last |-> last, req |-> req]
Shallow(t) == IF length[t] < MaxThreadPages THEN length[t] ELSE MaxThreadPages
Reads(where, a, key, last) ==
  crawler' = [crawler EXCEPT !.at = where, !.walk.left = @ \ {a},
                             !.read = Reading("poll", key, 1, last, Nil)]
NextThread == [crawler EXCEPT !.at = "list", !.read = NoRead]

\* Mutant of Bound: the address it has now.
BoundAnew(a) == a

\* First seen wins.
Bound(a) == IF alias[a.thread] = Nil THEN a ELSE alias[a.thread]

\* resolve_or_bind_forum_thread: by the tid on the page, the first address wins.
Polls(a) ==
  /\ Polling(a)
  /\ alias' = [alias EXCEPT ![a.thread] = Bound(a)]
  /\ Reads("ingest", a, Bound(a), Shallow(a.thread))
  /\ UNCHANGED <<board, account, monitored, cursor, link, stored, gated, sent, request, history, count>>

\* A page that does not show its tid: the address itself, less the section.
PollsNameless(a) ==
  /\ Polling(a) /\ Fault
  /\ Reads("ingest", a, Normal(a), Shallow(a.thread))
  /\ history' = [history EXCEPT !.nameless = @ \cup {a.thread}]
  /\ UNCHANGED <<board, account, monitored, cursor, tables, sent, request>>

\* A page with nothing on it; the thread counts as polled.
PollsBlank(a) ==
  /\ Polling(a) /\ Fault
  /\ Reads("close", a, Normal(a), 1)
  /\ history' = [history EXCEPT !.failed = @ \cup {a.thread}]
  /\ UNCHANGED <<board, account, monitored, cursor, tables, sent, request>>

\* No answer, or a locked database at any place: on to the next thread.
PollsNot(a) ==
  /\ Polling(a) /\ Fault
  /\ crawler' = [crawler EXCEPT !.walk.left = @ \ {a}]
  /\ history' = [history EXCEPT !.failed = @ \cup {a.thread}]
  /\ UNCHANGED <<board, account, monitored, cursor, tables, sent, request>>

Skips ==
  /\ crawler.at \in {"ingest", "close"} /\ crawler.read.mode = "poll"
  /\ Fault /\ crawler' = NextThread
  /\ history' = [history EXCEPT !.failed = @ \cup {crawler.read.key.thread}]
  /\ UNCHANGED <<board, account, monitored, cursor, tables, sent, request>>

\* record_forum_thread_link.
Links ==
  /\ crawler.at = "close" /\ crawler.read.mode = "poll"
  /\ link' = link \cup {<<crawler.walk.cat, crawler.read.key>>}
  /\ crawler' = NextThread
  /\ UNCHANGED <<board, account, monitored, cursor, alias, stored, gated, sent, request, history, count>>

-----------------------------------------------------------------------------
(* Reading a thread, page by page: for a sweep, for a backfill, and again    *)
(* after a reply.                                                            *)

Post == Evidence(crawler.read.key, crawler.read.page)
\* Mutant of AfterPage: one page too many.
AfterPageOneMore ==
  [crawler EXCEPT !.at = IF crawler.read.page <= crawler.read.last THEN "turn" ELSE "close"]

AfterPage == [crawler EXCEPT !.at = IF crawler.read.page < crawler.read.last THEN "turn" ELSE "close"]

\* put_message: insert only.  A post behind a [hide] gate shows a placeholder.
Stores ==
  /\ crawler.at = "ingest" /\ crawler.read.mode \in {"poll", "backfill"} /\ Post \notin stored
  /\ stored' = stored \cup {Post}
  /\ gated' = IF Post.post = 1 /\ Post.key.thread \notin unlocked THEN gated \cup {Post} ELSE gated
  /\ crawler' = [crawler EXCEPT !.at = "publish"]
  /\ UNCHANGED <<board, account, monitored, cursor, alias, link, sent, request, history, count>>

\* Mutant of Knows: a post that is there already is published all the same.
KnowsAnew ==
  /\ crawler.at = "ingest" /\ crawler.read.mode \in {"poll", "backfill"} /\ Post \in stored
  /\ crawler' = [crawler EXCEPT !.at = "publish"]
  /\ UNCHANGED <<board, account, monitored, cursor, tables, sent, request, history, count>>

Knows ==
  /\ crawler.at = "ingest" /\ crawler.read.mode \in {"poll", "backfill"} /\ Post \in stored
  /\ crawler' = AfterPage
  /\ UNCHANGED <<board, account, monitored, cursor, tables, sent, request, history, count>>

PublishesPost ==
  /\ crawler.at = "publish"
  /\ sent' = sent \cup {Post} /\ crawler' = AfterPage
  /\ UNCHANGED <<board, account, monitored, cursor, tables, request, history, count>>

\* update_message_content: over what is there, by evidence_ref.
Overwrites ==
  /\ crawler.at = "ingest" /\ crawler.read.mode = "refetch"
  /\ gated' = IF Post.key.thread \in unlocked THEN gated \ {Post} ELSE gated
  /\ crawler' = AfterPage
  /\ UNCHANGED <<board, account, monitored, cursor, alias, link, stored, sent, request, history, count>>

NextPage ==
  /\ crawler.at = "turn" /\ crawler' = [crawler EXCEPT !.at = "ingest", !.read.page = @ + 1]
  /\ UNCHANGED <<board, account, monitored, cursor, tables, sent, request, history, count>>

ForRequest == {crawler.read.req} \cap Requests

NextPageBlank ==
  /\ crawler.at = "turn" /\ Fault
  /\ LET page == crawler.read.page + 1
     IN crawler' = [crawler EXCEPT !.at = IF page < crawler.read.last THEN "turn" ELSE "close",
                             !.read.page = page]
  /\ history' = [history EXCEPT !.short = @ \cup ForRequest]
  /\ UNCHANGED <<board, account, monitored, cursor, tables, sent, request>>

\* No answer: a sweep and a re-fetch keep what they have.
ReadsNoFurther ==
  /\ crawler.at = "turn" /\ crawler.read.mode \in {"poll", "refetch"} /\ Fault
  /\ crawler' = [crawler EXCEPT !.at = "close"]
  /\ history' = [history EXCEPT !.short = @ \cup ForRequest]
  /\ UNCHANGED <<board, account, monitored, cursor, tables, sent, request>>

-----------------------------------------------------------------------------
(* _execute_reply, _execute_backfill. *)

At(place, r) == crawler.at = place /\ r \in crawler.todo
\* complete_forum_*_request; the next request is read from the list at hand.
Completes(r, state, pages) ==
  /\ request' = [request EXCEPT ![r].state = state, ![r].pages = pages]
  /\ crawler' = [crawler EXCEPT !.at = IF request[r].kind = "reply" THEN "replies" ELSE "backfills",
                          !.todo = @ \ {r}, !.read = NoRead]

\* Mutant of NoForm: nothing is said of the request.
NoFormSilent(r) ==
  /\ At("replies", r) /\ ~Reached(request[r].key)
  /\ crawler' = [crawler EXCEPT !.todo = @ \ {r}]
  /\ UNCHANGED <<board, account, monitored, cursor, tables, sent, request, history, count>>

\* No form to reply with, which a thread without a number never has, ...
NoForm(r) ==
  /\ At("replies", r) /\ ~Reached(request[r].key)
  /\ Completes(r, "failed", 0)
  /\ UNCHANGED <<board, account, monitored, cursor, tables, sent, history, count>>

\* ... or no answer, or one that says flood or error.
Refused(r) ==
  /\ At("replies", r) /\ Fault /\ Completes(r, "failed", 0)
  /\ UNCHANGED <<board, account, monitored, cursor, tables, sent, history>>

\* The board takes the reply, a post like any other, and unlocks the thread.
\* It is no event of its own; at the bound the thread only rises.
Taken(r, place, mode) ==
  LET t == request[r].key.thread
  IN /\ At("replies", r) /\ Reached(request[r].key)
     /\ posted' = [posted EXCEPT ![r] = @ + 1] /\ unlocked' = unlocked \cup {t}
     /\ ToTop(t) /\ length' = [length EXCEPT ![t] = IF @ < MaxLength THEN @ + 1 ELSE @]
     /\ crawler' = [crawler EXCEPT !.at = place, !.read = Reading(mode, request[r].key, 0, 0, r)]
     /\ UNCHANGED <<home, moved, monitored, cursor, tables, sent, request>>

Replies(r) ==
  /\ Taken(r, "again", "refetch")
  /\ history' = [history EXCEPT !.risen = @ \cup Rises]
  /\ UNCHANGED count

\* It takes the reply and the answer is lost: httpx raises.
RepliesUnheard(r) ==
  /\ Taken(r, "close", "unheard") /\ Fault
  /\ history' = [history EXCEPT !.risen = @ \cup Rises, !.unheard = @ \cup {r}]

\* It refuses in words _reply_outcome does not know, which is ok to it.
RepliesMisread(r) ==
  /\ At("replies", r) /\ Reached(request[r].key) /\ Fault
  /\ crawler' = [crawler EXCEPT !.at = "again", !.read = Reading("refetch", request[r].key, 0, 0, r)]
  /\ history' = [history EXCEPT !.short = @ \cup {r}]
  /\ UNCHANGED <<board, account, monitored, cursor, tables, sent, request>>

\* _refetch_thread_unlocked: as many pages as there are by now.
ReadsAgain ==
  /\ crawler.at = "again"
  /\ crawler' = [crawler EXCEPT !.at = "ingest", !.read.page = 1,
                          !.read.last = length[crawler.read.key.thread]]
  /\ UNCHANGED <<board, account, monitored, cursor, tables, sent, request, history, count>>

\* Nothing on the page, or no answer: the request is done all the same.
ReadsAgainNothing ==
  /\ crawler.at = "again" /\ Fault /\ crawler' = [crawler EXCEPT !.at = "close"]
  /\ history' = [history EXCEPT !.short = @ \cup ForRequest]
  /\ UNCHANGED <<board, account, monitored, cursor, tables, sent, request>>

ReplyCompletes ==
  /\ crawler.at = "close" /\ crawler.read.mode \in {"refetch", "unheard"}
  /\ Completes(crawler.read.req, IF crawler.read.mode = "refetch" THEN "done" ELSE "failed", 0)
  /\ UNCHANGED <<board, account, monitored, cursor, tables, sent, history, count>>

\* _backfill_thread: all pages there are when it reads the first.
Deepens(r) ==
  /\ At("backfills", r) /\ Reached(request[r].key)
  /\ LET k == request[r].key
     IN crawler' = [crawler EXCEPT !.at = "ingest",
                             !.read = Reading("backfill", k, 1, length[k.thread], r)]
  /\ UNCHANGED <<board, account, monitored, cursor, tables, sent, request, history, count>>

Nothing(r) ==
  /\ At("backfills", r)
  /\ crawler' = [crawler EXCEPT !.at = "close", !.read = Reading("backfill", request[r].key, 1, 1, r)]
  /\ history' = [history EXCEPT !.short = @ \cup {r}]
  /\ UNCHANGED <<board, account, monitored, cursor, tables, sent, request>>

\* A slug is no number: the board shows an error page, which is one page and done.
DeepensSlug(r) == Nothing(r) /\ ~Reached(request[r].key) /\ UNCHANGED count

DeepensBlank(r) == Nothing(r) /\ Reached(request[r].key) /\ Fault

\* Mutant of DeepensNot: an answer that fails to come ends the thread.
DeepensSome(r) ==
  /\ \/ At("backfills", r)
     \/ crawler.at = "turn" /\ crawler.read.mode = "backfill" /\ crawler.read.req = r
  /\ Fault /\ Completes(r, "done", crawler.read.last)
  /\ UNCHANGED <<board, account, monitored, cursor, tables, sent, history>>

\* No answer, to the first page or a later one.
DeepensNot(r) ==
  /\ \/ At("backfills", r)
     \/ crawler.at = "turn" /\ crawler.read.mode = "backfill" /\ crawler.read.req = r
  /\ Fault /\ Completes(r, "failed", 0)
  /\ UNCHANGED <<board, account, monitored, cursor, tables, sent, history>>

BackfillCompletes ==
  /\ crawler.at = "close" /\ crawler.read.mode = "backfill"
  /\ Completes(crawler.read.req, "done", crawler.read.last)
  /\ UNCHANGED <<board, account, monitored, cursor, tables, sent, history, count>>

-----------------------------------------------------------------------------

Board ==
  \/ \E t \in Threads : NewPost(t)
  \/ \E t \in Threads, c \in Categories : NewThread(t, c) \/ Relocates(t, c)

Operators ==
  \/ \E c \in Categories : Monitors(c)
  \/ \E r \in Requests, kind \in {"reply", "backfill"} : Asks(r, kind)

\* What the coroutine does next when nothing fails.
Works ==
  \/ Boots \/ TakesReplies \/ TakesBackfills \/ Sweeps \/ Rests
  \/ \E c \in Categories : Opens(c)
  \/ EndsSweep \/ LeavesFirst \/ SavesCursor \/ Turns
  \/ \E a \in crawler.walk.left : Polls(a)
  \/ Links
  \/ Stores \/ Knows \/ PublishesPost \/ Overwrites \/ NextPage
  \/ \E r \in Requests : NoForm(r) \/ Replies(r) \/ Deepens(r) \/ DeepensSlug(r)
  \/ ReadsAgain \/ ReplyCompletes \/ BackfillCompletes

Fails ==
  \/ Leaves \/ Breaks
  \/ \E c \in Categories : OpensBlank(c) \/ PassesOver(c)
  \/ SavesNothing \/ TurnsBlank \/ TurnsNot
  \/ \E a \in crawler.walk.left : PollsNameless(a) \/ PollsBlank(a) \/ PollsNot(a)
  \/ Skips
  \/ NextPageBlank \/ ReadsNoFurther \/ ReadsAgainNothing
  \/ \E r \in Requests : Refused(r) \/ RepliesUnheard(r) \/ RepliesMisread(r)
  \/ \E r \in Requests : DeepensBlank(r) \/ DeepensNot(r)

CrawlNext == Board \/ Operators \/ Works \/ Fails

\* The event loop runs what can run, and the supervisor starts what died.
CrawlSpec == CrawlInit /\ [][CrawlNext]_crawlVars /\ WF_crawlVars(Works)

-----------------------------------------------------------------------------
(* Properties. *)

Keys == [thread : Threads, form : {"tid", "prefixed", "plain"}]
Rows == [key : Keys, post : 1..MaxLength]

\* Every variable stays within its domain; the states are those real.py uses.
CrawlTypeOK ==
  /\ rank \in [Threads -> Nat] /\ home \in [Threads -> Categories \cup {Nil}]
  /\ length \in [Threads -> 1..MaxLength] /\ moved \subseteq Threads
  /\ unlocked \subseteq Threads /\ posted \in [Requests -> Nat]
  /\ monitored \subseteq Categories
  /\ cursor \in [Categories -> [next : Nat, complete : BOOLEAN]]
  /\ alias \in [Threads -> Keys \cup {Nil}] /\ link \subseteq Categories \X Keys
  /\ stored \subseteq Rows /\ gated \subseteq stored /\ sent \subseteq stored
  /\ crawler.at \in {"down", "idle", "replies", "backfills", "crawl", "list", "page", "ingest",
                  "publish", "turn", "close", "again"}
  /\ crawler.todo \subseteq Requests /\ crawler.cats \subseteq Categories
  /\ crawler.walk.left \subseteq Keys

\* The cursor passes no thread that was not read: whatever dies in between, a
\* thread on a page before it, or of an archive called complete, is stored, unless
\* it rose on the board meanwhile, its own reading failed, or the board had grown
\* past the last page known (_crawl_category).
PassedIsStored ==
  \A c \in Categories, t \in Threads :
    /\ PageOf(c, t) # 0
    /\ cursor[c].complete \/ PageOf(c, t) < cursor[c].next
    => \/ \E e \in stored : e.key.thread = t /\ e.post = 1
       \/ t \in history.risen \cup history.failed \cup history.outgrown

\* A post goes to the sensors once, through every sweep, backfill and restart, and
\* is withheld only when the process died between the row and the publish
\* (_ingest_post).
PublishedOnce ==
  LET now == IF crawler.at = "publish" THEN {Post} ELSE {}
  IN /\ stored = sent \cup history.lost \cup now
     /\ now \cap (sent \cup history.lost) = {}

\* However a thread is moved, its posts keep one key, unless a page did not show
\* its tid (resolve_or_bind_forum_thread).
OneKeyPerThread ==
  \A e, f \in stored :
    e.key.thread = f.key.thread => e.key = f.key \/ e.key.thread \in history.nameless

\* A reply is posted once for each request, unless the process died before it
\* said so; what is called failed was not posted, unless its answer was lost, and
\* what is called done was, unless the refusal was not understood (_execute_reply).
RepliedOnce ==
  \A r \in Requests : request[r].kind = "reply" =>
    /\ posted[r] > 1 => r \in history.torn
    /\ request[r].state = "failed" /\ posted[r] > 0 => r \in history.unheard \cup history.torn
    /\ request[r].state = "done" /\ posted[r] = 0 => r \in history.short

\* What a request is called done for is in the tables: the pages of a backfill,
\* the unlocked posts of a reply, unless a page came back empty (_execute_backfill,
\* _refetch_thread_unlocked).
DoneIsRead ==
  \A r \in Requests :
    request[r].state = "done" /\ r \notin history.short =>
      LET k == request[r].key
      IN IF request[r].kind = "backfill"
           THEN \A n \in 1..request[r].pages : Evidence(k, n) \in stored
           ELSE \A e \in gated : e.key # k

\* Every request is answered in the end, done or failed, whatever dies on the way
\* (_process_reply_requests, _process_backfill_requests).
RequestsAnswered ==
  \A r \in Requests : request[r].state = "pending" ~> request[r].state # "pending"

\* forum_crawl_cursor.py: backfill_complete latches once the archive is compiled.
\* So, where nothing failed, whoever did not rise since is stored.
ArchiveCompiled ==
  \A c \in Categories, t \in Threads :
    PageOf(c, t) # 0 /\ cursor[c].complete
    => \/ \E e \in stored : e.key.thread = t
       \/ t \in history.risen \cup history.failed

\* api_backfill_group.py:5-6: the running collector fetches all pages of that
\* thread.  So, where nothing failed, done says that those of the start are there.
BackfilledInFull ==
  \A r \in Requests :
    request[r].kind = "backfill" /\ request[r].state = "done" /\ count.faults = 0 =>
      \A n \in 1..FirstLength[request[r].key.thread] : Evidence(request[r].key, n) \in stored
=============================================================================
