----------------------------- MODULE FetchedLists -----------------------------
(* What is fetched from the network and kept for an hour: the feeds of podcasts,  *)
(* one file each, and the tracks of Spotify's albums and playlists, which come    *)
(* page by page and are kept in memory and, all of them, in one file.  Both files *)
(* are written in place, and the box may be switched off at any time.  The calls  *)
(* come one after the other, under the plugs lock.  A list is known by how many   *)
(* of its parts are there, Spotify's by its pages; that the service changes it    *)
(* between two pages is left out.                                                 *)
EXTENDS Naturals

CONSTANTS
  Feeds, Uris,   \* of podcasts, and of Spotify's albums and playlists
  PagesOf,       \* the parts of each
  NoList,
  Unreadable     \* a file that is not there, or is not JSON

ASSUME ListsAssumption ==
  /\ NoList \notin Feeds \cup Uris /\ Feeds \cap Uris = {}
  /\ PagesOf \in [Feeds \cup Uris -> Nat \ {0}]

VARIABLES
  feedFile,   \* cache file of each feed: how much of it is there
  parsed,     \* history: how much of each feed its file was last opened for
  cache,      \* the resolver's cache: pages of each list, 0 if it is not there
  cacheFile,  \* content_cache.json
  old,        \* what was fetched more than an hour ago
  asked,      \* the call: where it is, for which list, with how many pages
  served      \* what the last call returned, and whether a request of it failed

listVars == <<feedFile, parsed, cache, cacheFile, old, asked, served>>

NotAsked == [at |-> "idle", list |-> NoList, pages |-> 0]
NotServed == [list |-> NoList, pages |-> 0, failed |-> FALSE]

Serve(l, pages, failed) ==
  /\ asked' = NotAsked
  /\ served' = [list |-> l, pages |-> pages, failed |-> failed]

ProceedTo(place) == asked' = [asked EXCEPT !.at = place] /\ UNCHANGED served

ListsInit ==
  /\ feedFile = [f \in Feeds |-> Unreadable] /\ parsed = [f \in Feeds |-> 0]
  /\ cache = [u \in Uris |-> 0] /\ cacheFile = cache
  /\ old = {} /\ asked = NotAsked /\ served = NotServed

\* fetch_feed: from the file, if that is of this hour and can be read.
AskFeed(f, forceRefresh) ==
  /\ asked.at = "idle"
  /\ IF ~forceRefresh /\ feedFile[f] # Unreadable /\ f \notin old
       THEN Serve(f, feedFile[f], FALSE)
       ELSE asked' = [at |-> "fetch", list |-> f, pages |-> 0] /\ served' = NotServed
  /\ UNCHANGED <<feedFile, parsed, cache, cacheFile, old>>

\* The answer, and as much of it as can be parsed: a feed that is cut off or not
\* well-formed is only warned of, and what is no episode is passed over.
FetchFeed ==
  /\ asked.at = "fetch"
  /\ \E n \in 0..PagesOf[asked.list] : asked' = [asked EXCEPT !.at = "openFeed", !.pages = n]
  /\ UNCHANGED served
  /\ UNCHANGED <<feedFile, parsed, cache, cacheFile, old>>

\* No network or nothing that looks like an entry: None, whatever the file holds.
FetchFeedFails ==
  /\ asked.at = "fetch" /\ Serve(asked.list, 0, TRUE)
  /\ UNCHANGED <<feedFile, parsed, cache, cacheFile, old>>

\* _save_to_cache: the file is emptied, ...
OpenFeed ==
  /\ asked.at = "openFeed" /\ ProceedTo("writeFeed")
  /\ feedFile' = [feedFile EXCEPT ![asked.list] = Unreadable]
  /\ parsed' = [parsed EXCEPT ![asked.list] = asked.pages]
  /\ old' = old \ {asked.list}
  /\ UNCHANGED <<cache, cacheFile>>

\* ... and written, or not: that is only logged.
WriteFeed ==
  /\ asked.at = "writeFeed" /\ Serve(asked.list, asked.pages, FALSE)
  /\ \E outcome \in {asked.pages, Unreadable} :
       feedFile' = [feedFile EXCEPT ![asked.list] = outcome]
  /\ UNCHANGED <<parsed, cache, cacheFile, old>>

\* resolve_uri.
AskList(u) ==
  /\ asked.at = "idle"
  /\ IF cache[u] # 0 /\ u \notin old
       THEN Serve(u, cache[u], FALSE)
       ELSE asked' = [at |-> "page", list |-> u, pages |-> 0] /\ served' = NotServed
  /\ UNCHANGED <<feedFile, parsed, cache, cacheFile, old>>

\* _resolve_playlist, _resolve_album: page after page, ...
FetchPage ==
  /\ asked.at = "page" /\ asked.pages < PagesOf[asked.list]
  /\ asked' = [asked EXCEPT !.pages = @ + 1]
  /\ UNCHANGED <<feedFile, parsed, cache, cacheFile, old, served>>

\* ... and an error leaves nothing of them.
FetchPageFails ==
  /\ asked.at = "page" /\ asked.pages < PagesOf[asked.list]
  /\ Serve(asked.list, 0, TRUE)
  /\ UNCHANGED <<feedFile, parsed, cache, cacheFile, old>>

\* _cache_content: in memory first, ...
KeepList ==
  /\ asked.at = "page" /\ asked.pages = PagesOf[asked.list]
  /\ cache' = [cache EXCEPT ![asked.list] = asked.pages]
  /\ ProceedTo("openLists")
  /\ UNCHANGED <<feedFile, parsed, cacheFile, old>>

\* ... and _save_cache writes the whole cache, with the times, or fails to.
OpenLists ==
  /\ asked.at = "openLists" /\ ProceedTo("writeLists")
  /\ cacheFile' = Unreadable
  /\ UNCHANGED <<feedFile, parsed, cache, old>>

WriteLists ==
  /\ asked.at = "writeLists" /\ Serve(asked.list, cache[asked.list], FALSE)
  /\ cacheFile' \in {cache, Unreadable}
  /\ old' = old \ {asked.list}
  /\ UNCHANGED <<feedFile, parsed, cache>>

HourPasses(l) ==
  /\ asked.at = "idle" /\ l \notin old /\ old' = old \cup {l}
  /\ UNCHANGED <<feedFile, parsed, cache, cacheFile, asked, served>>

\* The box starts again: _load_cache, with no cache if the file cannot be read.
\* The time a list was fetched is kept with it, that of a feed is its file's.
StartAgain ==
  /\ cache' = IF cacheFile = Unreadable THEN [u \in Uris |-> 0] ELSE cacheFile
  /\ asked' = NotAsked /\ served' = NotServed
  /\ UNCHANGED <<feedFile, parsed, cacheFile, old>>

ListsNext ==
  \/ \E f \in Feeds, forceRefresh \in BOOLEAN : AskFeed(f, forceRefresh)
  \/ FetchFeed \/ FetchFeedFails \/ OpenFeed \/ WriteFeed
  \/ \E u \in Uris : AskList(u)
  \/ FetchPage \/ FetchPageFails \/ KeepList \/ OpenLists \/ WriteLists
  \/ \E l \in Feeds \cup Uris : HourPasses(l)
  \/ StartAgain

----------------------------------------------------------------------------

\* Spotify's lists are played and shown whole, whichever request failed and whenever
\* the box was switched off before, and of a feed never less than could be parsed
\* when its file was last opened, as little as that may be (fetch_feed keeps it for
\* the hour); and none is refused on account of a damaged file: only if a request of
\* that very call failed (resolve_uri, _load_from_cache).
ServedListsAreWhole ==
  served # NotServed =>
    \/ served.pages = IF served.list \in Feeds THEN parsed[served.list]
                                               ELSE PagesOf[served.list]
    \/ served.pages = 0 /\ served.failed
=============================================================================
