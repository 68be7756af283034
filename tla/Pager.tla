------------------------------- MODULE Pager -------------------------------
(***************************************************************************)
(* The pages of a database file and the sessions that open it: the page    *)
(* cache and free list of pager.c, the header checks of file_header.c, and *)
(* db_open and db_close of database.c, which are the only readers of the   *)
(* header and the only writers of the file.                                *)
(*                                                                         *)
(* What the b+trees do with their pages is left open: between open and     *)
(* close they may allocate a page, write any node they own and free any    *)
(* node but a table's root, in any order.                                  *)
(***************************************************************************)
EXTENDS Integers, FiniteSets

CONSTANTS
  MaxPages,       \* a bound on the database's size, in pages
  LengthWrap,     \* the pages at which a 32-bit file length wraps (2^20)
  Contents,       \* the contents a node can have
  Blank           \* a page that is still all zeros

ASSUME ContentsAssumption == Blank \in Contents
ASSUME PagesAssumption == MaxPages \in Nat /\ MaxPages >= 2
\* README, Limitations: "Files over 4 GiB aren't supported (the file's length
\* is read into 32 bits)".
ASSUME LengthAssumption == LengthWrap \in Nat /\ MaxPages < LengthWrap

PageNo == 0..(MaxPages - 1)
CatalogRoot == 1        \* NEW_CATALOG_ROOT_PAGE_NUM

NoPage == 0

\* Mutant of Header: the free list's head is not written.
HeaderWithoutHead(head) == [kind |-> "header", link |-> NoPage, contents |-> Blank]

\* Mutant of Free: the page is marked free but not linked to the list.
FreeUnlinked(next) == [kind |-> "free", link |-> NoPage, contents |-> Blank]

\* A header records the free list's head in its link, a free page the next one.
Header(head) == [kind |-> "header", link |-> head, contents |-> Blank]
Node(contents) == [kind |-> "node", link |-> NoPage, contents |-> contents]
Free(next) == [kind |-> "free", link |-> next, contents |-> Blank]

Page == [kind : {"header", "node", "free"}, link : PageNo, contents : Contents]
NoPages == [p \in PageNo |-> Node(Blank)]

VARIABLES
  disk,         \* the file's pages
  file_length,  \* how many pages the file has
  session,      \* "closed", "open", or "closing" while db_close flushes
  cache,        \* the pages in memory, where resident
  resident,     \* the pages the session has fetched
  num_pages,    \* the pages of the open database
  free_head,    \* the head of its free list
  flushed,      \* the pages db_close has gone past
  saved         \* the database as the last complete db_close left it

vars == <<disk, file_length, session, cache, resident, num_pages, free_head, flushed, saved>>

Init ==
  /\ disk = NoPages
  /\ file_length = 0
  /\ session = "closed"
  /\ cache = NoPages
  /\ resident = {}
  /\ num_pages = 0
  /\ free_head = NoPage
  /\ flushed = 0
  /\ saved = [pages |-> NoPages, length |-> 0]

\* What a fetch of each page of the open database returns.
View == [p \in PageNo |-> IF p \in resident THEN cache[p] ELSE disk[p]]

-----------------------------------------------------------------------------
\* pager_open reads the length into 32 bits.
LengthRead == file_length % LengthWrap

\* file_header_validate: the header's own page, the catalog root, the free list.
HeaderValid ==
  /\ disk[0].kind = "header"
  /\ CatalogRoot < LengthRead
  /\ disk[0].link < LengthRead

\* db_open on an empty file: the header, then the catalog's empty root.
OpenNew ==
  /\ session = "closed"
  /\ LengthRead = 0
  /\ session' = "open"
  /\ cache' = [NoPages EXCEPT ![0] = Header(NoPage)]
  /\ resident' = {0, CatalogRoot}
  /\ num_pages' = 2
  /\ free_head' = NoPage
  /\ UNCHANGED <<disk, file_length, flushed, saved>>

\* db_open on a file with pages; one with an invalid header is refused.
OpenExisting ==
  /\ session = "closed"
  /\ LengthRead > 0
  /\ HeaderValid
  /\ session' = "open"
  /\ cache' = [NoPages EXCEPT ![0] = disk[0]]
  /\ resident' = {0}
  /\ num_pages' = LengthRead
  /\ free_head' = disk[0].link
  /\ UNCHANGED <<disk, file_length, flushed, saved>>

\* refuse: the message is printed and nothing is written.
Refuse ==
  /\ session = "closed"
  /\ LengthRead > 0
  /\ ~HeaderValid
  /\ UNCHANGED vars

-----------------------------------------------------------------------------
\* pager_get_page on a page of the file that is not in the cache yet.
Fetch(p) ==
  /\ session = "open"
  /\ p < num_pages
  /\ p \notin resident
  /\ cache' = [cache EXCEPT ![p] = disk[p]]
  /\ resident' = resident \cup {p}
  /\ UNCHANGED <<disk, file_length, session, num_pages, free_head, flushed, saved>>

\* A tree writes a node it owns, through the pointer a fetch returned.
WriteNode(p, contents) ==
  /\ session = "open"
  /\ p \in resident
  /\ cache[p].kind = "node"
  /\ cache' = [cache EXCEPT ![p] = Node(contents)]
  /\ UNCHANGED <<disk, file_length, session, resident, num_pages, free_head, flushed, saved>>

\* pager_allocate_page off the free list.  The head is fetched, and the
\* process exits unless it is marked free.
Reuse ==
  /\ session = "open"
  /\ free_head # NoPage
  /\ View[free_head].kind = "free"
  /\ cache' = [cache EXCEPT ![free_head] = Node(Blank)]
  /\ resident' = resident \cup {free_head}
  /\ free_head' = View[free_head].link
  /\ UNCHANGED <<disk, file_length, session, num_pages, flushed, saved>>

\* pager_allocate_page with an empty free list: the page past the end.
Extend ==
  /\ session = "open"
  /\ free_head = NoPage
  /\ num_pages < MaxPages
  /\ cache' = [cache EXCEPT ![num_pages] = Node(Blank)]
  /\ resident' = resident \cup {num_pages}
  /\ num_pages' = num_pages + 1
  /\ UNCHANGED <<disk, file_length, session, free_head, flushed, saved>>

\* pager_free_page on a node a merge or a root collapse has emptied.
FreeNode(p) ==
  /\ session = "open"
  /\ p < num_pages
  /\ p # CatalogRoot
  /\ View[p].kind = "node"
  /\ cache' = [cache EXCEPT ![p] = Free(free_head)]
  /\ resident' = resident \cup {p}
  /\ free_head' = p
  /\ UNCHANGED <<disk, file_length, session, num_pages, flushed, saved>>

-----------------------------------------------------------------------------
\* Mutant of BeginClose: the flush loop starts at page 1.
BeginCloseAtOne ==
  /\ session = "open"
  /\ session' = "closing"
  /\ cache' = [cache EXCEPT ![0] = Header(free_head)]
  /\ flushed' = 1
  /\ UNCHANGED <<disk, file_length, resident, num_pages, free_head, saved>>

\* db_close writes the free list's head into the header, then every resident
\* page to its place in the file, in page order.
BeginClose ==
  /\ session = "open"
  /\ session' = "closing"
  /\ cache' = [cache EXCEPT ![0] = Header(free_head)]
  /\ flushed' = 0
  /\ UNCHANGED <<disk, file_length, resident, num_pages, free_head, saved>>

FlushPage ==
  /\ session = "closing"
  /\ flushed < num_pages
  /\ flushed \in resident
  /\ disk' = [disk EXCEPT ![flushed] = cache[flushed]]
  /\ file_length' = IF flushed < file_length THEN file_length ELSE flushed + 1
  /\ flushed' = flushed + 1
  /\ UNCHANGED <<session, cache, resident, num_pages, free_head, saved>>

SkipPage ==
  /\ session = "closing"
  /\ flushed < num_pages
  /\ flushed \notin resident
  /\ flushed' = flushed + 1
  /\ UNCHANGED <<disk, file_length, session, cache, resident, num_pages, free_head, saved>>

\* The process is gone, and its memory with it.
Forget ==
  /\ session' = "closed"
  /\ cache' = NoPages
  /\ resident' = {}
  /\ num_pages' = 0
  /\ free_head' = NoPage
  /\ flushed' = 0

FinishClose ==
  /\ session = "closing"
  /\ flushed = num_pages
  /\ saved' = [pages |-> View, length |-> num_pages]
  /\ Forget
  /\ UNCHANGED <<disk, file_length>>

\* End of input without .exit, a fatal error or a signal, before db_close.
Die ==
  /\ session = "open"
  /\ Forget
  /\ UNCHANGED <<disk, file_length, saved>>

\* The same while db_close is between two of its writes.
DieClosing ==
  /\ session = "closing"
  /\ Forget
  /\ UNCHANGED <<disk, file_length, saved>>

-----------------------------------------------------------------------------
Use ==
  \/ \E p \in PageNo : Fetch(p) \/ FreeNode(p)
  \/ \E p \in PageNo, contents \in Contents : WriteNode(p, contents)
  \/ Reuse \/ Extend

Next ==
  \/ OpenNew \/ OpenExisting
  \/ Use
  \/ BeginClose \/ FlushPage \/ SkipPage \/ FinishClose
  \/ Die

\* Sessions whose db_close, once begun, is not cut short.
Spec == Init /\ [][Next]_vars

\* Sessions that can die anywhere, and so leave a file that may be refused.
CrashNext == Next \/ DieClosing \/ Refuse
CrashSpec == Init /\ [][CrashNext]_vars

-----------------------------------------------------------------------------
TypeOK ==
  /\ disk \in [PageNo -> Page]
  /\ file_length \in 0..MaxPages
  /\ session \in {"closed", "open", "closing"}
  /\ cache \in [PageNo -> Page]
  /\ resident \subseteq PageNo
  /\ num_pages \in 0..MaxPages
  /\ free_head \in PageNo
  /\ flushed \in 0..MaxPages
  /\ saved \in [pages : [PageNo -> Page], length : 0..MaxPages]

\* `chain` lists the free pages of a database of `length` pages from `head` on,
\* each once, and misses none.
FreeChain(chain, n, pages, head, length) ==
  /\ chain \in [1..n -> 1..(length - 1)]
  /\ \A i, j \in 1..n : chain[i] = chain[j] => i = j
  /\ head = IF n = 0 THEN NoPage ELSE chain[1]
  /\ \A i \in 1..n : pages[chain[i]].kind = "free"
  /\ \A i \in 1..n : pages[chain[i]].link = IF i = n THEN NoPage ELSE chain[i + 1]
  /\ \A p \in 0..(length - 1) : pages[p].kind = "free" => \E i \in 1..n : chain[i] = p

FreeListSound(pages, head, length) ==
  \E n \in 0..MaxPages : \E chain \in [1..n -> 1..(length - 1)] :
    FreeChain(chain, n, pages, head, length)

\* The free list of an open database holds exactly its free pages, each once,
\* through every fetch, allocation, reuse, free and reopening: an allocation
\* never hands out a page that is in use, "Corrupt free list" is never printed,
\* and no freed page is lost (pager_allocate_page, pager_free_page).
FreeListIntact ==
  session # "closed" => FreeListSound(View, free_head, num_pages)

\* "pages are flushed only on a clean .exit; kill the process, or hit a fatal
\* error, and unsaved changes are lost" (README, Limitations): with no session
\* open, the file is the database the last complete db_close had in memory,
\* the pages that session never fetched included.
OnlyUnsavedChangesLost ==
  session = "closed" => disk = saved.pages /\ file_length = saved.length

\* A database that was once saved stays one that opens: its header passes
\* file_header_validate and its free list can be allocated from.
SavedDatabaseSurvives ==
  session = "closed" /\ saved.length > 0 =>
    HeaderValid /\ FreeListSound(disk, disk[0].link, file_length)

=============================================================================
