---------------------------- MODULE PagerProofs ----------------------------
(***************************************************************************)
(* Proofs about module Pager, for every number of pages and any contents:  *)
(* its free list and its file stay sound over any sequence of sessions     *)
(* whose db_close is not cut short.                                        *)
(***************************************************************************)
EXTENDS Pager, FiniteSetTheorems, TLAPS

\* FreeListSound without the bound on the list's length.
ListSound(pages, head, length) ==
  \E n \in Nat : \E chain \in [1..n -> 1..(length - 1)] :
    FreeChain(chain, n, pages, head, length)

\* A whole database: a header that agrees with a sound free list.
Whole(pages, head, length) ==
  /\ length \in 2..MaxPages
  /\ pages[0].kind = "header"
  /\ ListSound(pages, head, length)

\* The file is the saved database except while db_close rewrites it.
FileIsSaved == disk = saved.pages /\ file_length = saved.length

SavedWhole == saved.length > 0 => Whole(saved.pages, saved.pages[0].link, saved.length)

Closed == resident = {} /\ FileIsSaved

\* A page that is not on disk yet is in memory.
InSession ==
  /\ Whole(View, free_head, num_pages)
  /\ 0 \in resident
  /\ resident \subseteq 0..(num_pages - 1)
  /\ file_length <= num_pages
  /\ \A p \in file_length..(num_pages - 1) : p \in resident

\* The pages db_close has gone past are on disk as they are in memory.
Closing ==
  /\ cache[0] = Header(free_head)
  /\ flushed <= num_pages
  /\ flushed <= file_length
  /\ \A p \in resident : p < flushed => disk[p] = cache[p]

IInv ==
  /\ TypeOK
  /\ SavedWhole
  /\ session = "closed" => Closed
  /\ session = "open" => InSession /\ FileIsSaved
  /\ session = "closing" => InSession /\ Closing

-----------------------------------------------------------------------------
\* Any list of the free pages, of whatever length, is a witness of soundness.
LEMMA ChainMakesListSound ==
  ASSUME NEW pages, NEW head, NEW length, NEW n \in Nat, NEW chain,
         FreeChain(chain, n, pages, head, length)
  PROVE  ListSound(pages, head, length)
<1>1. chain \in [1..n -> 1..(length - 1)]
  BY DEF FreeChain
<1> QED
  BY <1>1 DEF ListSound

\* A free list survives any change that leaves the free pages as they are.
LEMMA UntouchedListSound ==
  ASSUME NEW pages, NEW pages2, NEW head, NEW length \in Nat,
         ListSound(pages, head, length),
         \A p \in 0..(length - 1) :
           pages[p].kind = "free" \/ pages2[p].kind = "free" => pages2[p] = pages[p]
  PROVE  ListSound(pages2, head, length)
<1>1. PICK n \in Nat : \E chain \in [1..n -> 1..(length - 1)] :
        FreeChain(chain, n, pages, head, length)
  BY DEF ListSound
<1>2. PICK chain \in [1..n -> 1..(length - 1)] : FreeChain(chain, n, pages, head, length)
  BY <1>1
<1>3. ASSUME NEW i \in 1..n PROVE pages2[chain[i]] = pages[chain[i]]
  <2>1. chain[i] \in 0..(length - 1)
    OBVIOUS
  <2>2. pages[chain[i]].kind = "free"
    BY <1>2 DEF FreeChain
  <2> QED
    BY <2>1, <2>2
<1>4. FreeChain(chain, n, pages2, head, length)
  <2>1. \A i \in 1..n : pages2[chain[i]].kind = "free"
    BY <1>2, <1>3 DEF FreeChain
  <2>2. \A i \in 1..n : pages2[chain[i]].link = IF i = n THEN NoPage ELSE chain[i + 1]
    BY <1>2, <1>3 DEF FreeChain
  <2>3. \A p \in 0..(length - 1) : pages2[p].kind = "free" => \E i \in 1..n : chain[i] = p
    BY <1>2 DEF FreeChain
  <2> QED
    BY <1>2, <2>1, <2>2, <2>3 DEF FreeChain
<1> QED
  BY <1>4, ChainMakesListSound

\* Taking the head off the list, as an allocation does, leaves the list of the
\* other free pages, headed by the page the old head named.
LEMMA ShorterListSound ==
  ASSUME NEW pages, NEW pages2, NEW head, NEW length \in Nat,
         ListSound(pages, head, length), head # NoPage,
         pages2[head].kind # "free",
         \A p \in 0..(length - 1) : p # head => pages2[p] = pages[p]
  PROVE  ListSound(pages2, pages[head].link, length)
<1>1. PICK n \in Nat : \E chain \in [1..n -> 1..(length - 1)] :
        FreeChain(chain, n, pages, head, length)
  BY DEF ListSound
<1>2. PICK chain \in [1..n -> 1..(length - 1)] : FreeChain(chain, n, pages, head, length)
  BY <1>1
<1>3. n > 0 /\ chain[1] = head
  BY <1>2 DEF FreeChain, NoPage
<1> DEFINE rest == [i \in 1..(n - 1) |-> chain[i + 1]]
<1>4. rest \in [1..(n - 1) -> 1..(length - 1)]
  BY <1>3
<1>5. \A i \in 1..(n - 1) : rest[i] # head /\ rest[i] \in 0..(length - 1)
  BY <1>2, <1>3, <1>4 DEF FreeChain
<1>6. FreeChain(rest, n - 1, pages2, pages[head].link, length)
  <2>1. \A i, j \in 1..(n - 1) : rest[i] = rest[j] => i = j
    BY <1>2, <1>3 DEF FreeChain
  <2>2. pages[head].link = IF n - 1 = 0 THEN NoPage ELSE rest[1]
    BY <1>2, <1>3 DEF FreeChain
  <2>3. \A i \in 1..(n - 1) : pages2[rest[i]] = pages[chain[i + 1]]
    BY <1>5
  <2>4. \A i \in 1..(n - 1) : pages2[rest[i]].kind = "free"
    BY <2>3, <1>2 DEF FreeChain
  <2>5. ASSUME NEW i \in 1..(n - 1)
        PROVE  pages2[rest[i]].link = IF i = n - 1 THEN NoPage ELSE rest[i + 1]
    <3>1. i + 1 \in 1..n
      BY <1>3
    <3>2. pages2[rest[i]].link = pages[chain[i + 1]].link
      BY <2>3
    <3>3. @ = IF i + 1 = n THEN NoPage ELSE chain[i + 1 + 1]
      BY <3>1, <1>2 DEF FreeChain
    <3>4. i # n - 1 => rest[i + 1] = chain[i + 1 + 1]
      BY <1>3
    <3> QED
      BY <3>2, <3>3, <3>4, <1>3
  <2>6. ASSUME NEW p \in 0..(length - 1), pages2[p].kind = "free"
        PROVE  \E i \in 1..(n - 1) : rest[i] = p
    <3>1. p # head /\ pages[p].kind = "free"
      BY <2>6
    <3>2. PICK i \in 1..n : chain[i] = p
      BY <3>1, <1>2 DEF FreeChain
    <3>3. i > 1
      BY <3>1, <3>2, <1>3
    <3>4. i - 1 \in 1..(n - 1) /\ rest[i - 1] = p
      BY <3>2, <3>3
    <3> QED
      BY <3>4
  <2> QED
    BY <1>4, <2>1, <2>2, <2>4, <2>5, <2>6 DEF FreeChain
<1>7. n - 1 \in Nat
  BY <1>3
<1> HIDE DEF rest
<1> QED
  BY <1>6, <1>7, ChainMakesListSound

\* Pushing a page that was not free, as pager_free_page does, makes a list that
\* starts with it.
LEMMA LongerListSound ==
  ASSUME NEW pages, NEW pages2, NEW head, NEW length \in Nat, NEW new \in 1..(length - 1),
         ListSound(pages, head, length),
         pages[new].kind # "free",
         pages2[new].kind = "free", pages2[new].link = head,
         \A p \in 0..(length - 1) : p # new => pages2[p] = pages[p]
  PROVE  ListSound(pages2, new, length)
<1>1. PICK n \in Nat : \E chain \in [1..n -> 1..(length - 1)] :
        FreeChain(chain, n, pages, head, length)
  BY DEF ListSound
<1>2. PICK chain \in [1..n -> 1..(length - 1)] : FreeChain(chain, n, pages, head, length)
  BY <1>1
<1> DEFINE longer == [i \in 1..(n + 1) |-> IF i = 1 THEN new ELSE chain[i - 1]]
<1>3. longer \in [1..(n + 1) -> 1..(length - 1)]
  OBVIOUS
<1>4. \A i \in 1..n : chain[i] # new /\ chain[i] \in 0..(length - 1)
  BY <1>2 DEF FreeChain
<1>5. FreeChain(longer, n + 1, pages2, new, length)
  <2>1. \A i, j \in 1..(n + 1) : longer[i] = longer[j] => i = j
    BY <1>2, <1>4 DEF FreeChain
  <2>2. new = IF n + 1 = 0 THEN NoPage ELSE longer[1]
    OBVIOUS
  <2>3. \A i \in 1..n : pages2[chain[i]] = pages[chain[i]]
    BY <1>4
  <2>4. \A i \in 1..(n + 1) : pages2[longer[i]].kind = "free"
    BY <2>3, <1>2 DEF FreeChain
  <2>5. ASSUME NEW i \in 1..(n + 1)
        PROVE  pages2[longer[i]].link = IF i = n + 1 THEN NoPage ELSE longer[i + 1]
    <3>1. CASE i = 1
      BY <3>1, <1>2 DEF FreeChain
    <3>2. CASE i # 1
      <4>1. i - 1 \in 1..n /\ longer[i] = chain[i - 1]
        BY <3>2
      <4>2. pages2[longer[i]].link = pages[chain[i - 1]].link
        BY <4>1, <2>3
      <4>3. @ = IF i - 1 = n THEN NoPage ELSE chain[i]
        BY <4>1, <1>2 DEF FreeChain
      <4> QED
        BY <3>2, <4>2, <4>3
    <3> QED
      BY <3>1, <3>2
  <2>6. ASSUME NEW p \in 0..(length - 1), pages2[p].kind = "free"
        PROVE  \E i \in 1..(n + 1) : longer[i] = p
    <3>1. CASE p = new
      <4>1. 1 \in 1..(n + 1) /\ longer[1] = p
        BY <3>1
      <4> QED
        BY <4>1
    <3>2. CASE p # new
      <4>1. PICK i \in 1..n : chain[i] = p
        BY <2>6, <3>2, <1>2 DEF FreeChain
      <4>2. i + 1 \in 1..(n + 1) /\ longer[i + 1] = p
        BY <4>1
      <4> QED
        BY <4>2
    <3> QED
      BY <3>1, <3>2
  <2> QED
    BY <1>3, <2>1, <2>2, <2>4, <2>5, <2>6 DEF FreeChain
<1>6. n + 1 \in Nat
  OBVIOUS
<1> HIDE DEF longer
<1> QED
  BY <1>5, <1>6, ChainMakesListSound

\* A list whose pages are distinct is no longer than the database, so the
\* unbounded and the bounded form of soundness agree.
LEMMA SoundListBounded ==
  ASSUME NEW pages, NEW head, NEW length \in 0..MaxPages, ListSound(pages, head, length)
  PROVE  FreeListSound(pages, head, length)
<1>1. PICK n \in Nat : \E chain \in [1..n -> 1..(length - 1)] :
        FreeChain(chain, n, pages, head, length)
  BY DEF ListSound
<1>2. PICK chain \in [1..n -> 1..(length - 1)] : FreeChain(chain, n, pages, head, length)
  BY <1>1
<1>3. chain \in Injection(1..n, 1..(length - 1))
  BY <1>2 DEF FreeChain, Injection, IsInjective
<1>4. IsFiniteSet(1..(length - 1)) /\ Cardinality(1..(length - 1)) <= MaxPages
  <2>1. length - 1 \in Int
    BY PagesAssumption
  <2>2. /\ IsFiniteSet(1..(length - 1))
        /\ Cardinality(1..(length - 1)) = IF 1 > length - 1 THEN 0 ELSE length - 1 - 1 + 1
    BY <2>1, FS_Interval
  <2> QED
    BY <2>2, PagesAssumption
<1>5. IsFiniteSet(1..n) /\ Cardinality(1..n) = n
  <2>1. Cardinality(1..n) = IF 1 > n THEN 0 ELSE n - 1 + 1
    BY FS_Interval
  <2> QED
    BY <2>1, FS_Interval
<1>6. Cardinality(1..n) <= Cardinality(1..(length - 1))
  BY <1>3, <1>4, FS_Injection
<1>7. n \in 0..MaxPages
  <2>1. Cardinality(1..(length - 1)) \in Nat
    BY <1>4, FS_CardinalityType
  <2> QED
    BY <1>4, <1>5, <1>6, <2>1, PagesAssumption
<1> QED
  BY <1>2, <1>7 DEF FreeListSound

\* The page past the end joins the database without joining its free list.
LEMMA ExtendedListSound ==
  ASSUME NEW pages, NEW pages2, NEW head, NEW length \in Nat,
         ListSound(pages, head, length),
         pages2[length].kind # "free",
         \A p \in 0..(length - 1) : pages2[p] = pages[p]
  PROVE  ListSound(pages2, head, length + 1)
<1>1. PICK n \in Nat : \E chain \in [1..n -> 1..(length - 1)] :
        FreeChain(chain, n, pages, head, length)
  BY DEF ListSound
<1>2. PICK chain \in [1..n -> 1..(length - 1)] : FreeChain(chain, n, pages, head, length)
  BY <1>1
<1>3. ASSUME NEW i \in 1..n PROVE pages2[chain[i]] = pages[chain[i]]
  <2>1. chain[i] \in 0..(length - 1)
    OBVIOUS
  <2> QED
    BY <2>1
<1>4. chain \in [1..n -> 1..(length + 1 - 1)]
  OBVIOUS
<1>5. \A i \in 1..n : pages2[chain[i]].kind = "free"
  BY <1>2, <1>3 DEF FreeChain
<1>6. \A i \in 1..n : pages2[chain[i]].link = IF i = n THEN NoPage ELSE chain[i + 1]
  BY <1>2, <1>3 DEF FreeChain
<1>7. ASSUME NEW p \in 0..(length + 1 - 1), pages2[p].kind = "free"
      PROVE  \E i \in 1..n : chain[i] = p
  <2>1. p \in 0..(length - 1)
    BY <1>7
  <2> QED
    BY <1>7, <2>1, <1>2 DEF FreeChain
<1>8. FreeChain(chain, n, pages2, head, length + 1)
  BY <1>2, <1>4, <1>5, <1>6, <1>7 DEF FreeChain
<1> QED
  BY <1>8, ChainMakesListSound

\* The head of a sound list is one of its free pages, unless the list is empty.
LEMMA HeadIsFree ==
  ASSUME NEW pages, NEW head, NEW length \in Nat \ {0}, ListSound(pages, head, length)
  PROVE  /\ head \in 0..(length - 1)
         /\ head # NoPage => pages[head].kind = "free"
<1>1. PICK n \in Nat : \E chain \in [1..n -> 1..(length - 1)] :
        FreeChain(chain, n, pages, head, length)
  BY DEF ListSound
<1>2. PICK chain \in [1..n -> 1..(length - 1)] : FreeChain(chain, n, pages, head, length)
  BY <1>1
<1>3. CASE n = 0
  BY <1>2, <1>3 DEF FreeChain, NoPage
<1>4. CASE n # 0
  <2>1. 1 \in 1..n /\ head = chain[1]
    BY <1>2, <1>4 DEF FreeChain
  <2> QED
    BY <1>2, <2>1 DEF FreeChain
<1> QED
  BY <1>3, <1>4

-----------------------------------------------------------------------------
\* Below 4 GiB the length pager_open reads is the file's.
LEMMA LengthReadExact == TypeOK => LengthRead = file_length
  BY LengthAssumption, PagesAssumption DEF TypeOK, LengthRead

LEMMA PageTypes ==
  /\ 0 \in PageNo /\ CatalogRoot \in PageNo /\ NoPage \in PageNo
  /\ \A contents \in Contents : Node(contents) \in Page
  /\ \A head \in PageNo : Header(head) \in Page /\ Free(head) \in Page
  /\ NoPages \in [PageNo -> Page]
  BY ContentsAssumption, PagesAssumption
  DEF PageNo, CatalogRoot, NoPage, Node, Header, Free, Page, NoPages

LEMMA ViewType == TypeOK => View \in [PageNo -> Page]
  BY DEF TypeOK, View

\* A change to one page leaves the others of the database alone.
LEMMA OtherPagesKept ==
  ASSUME NEW f \in [PageNo -> Page], NEW p, NEW page, NEW length \in 2..MaxPages
  PROVE  \A q \in 0..(length - 1) : q # p => [f EXCEPT ![p] = page][q] = f[q]
<1>1. 0..(length - 1) \subseteq PageNo
  BY PagesAssumption DEF PageNo
<1> QED
  BY <1>1

LEMMA InitInv == Init => IInv
<1> SUFFICES ASSUME Init PROVE IInv
  OBVIOUS
<1>1. TypeOK
  BY PageTypes, PagesAssumption DEF Init, TypeOK
<1>2. SavedWhole /\ Closed
  BY DEF Init, SavedWhole, Closed, FileIsSaved
<1> QED
  BY <1>1, <1>2 DEF Init, IInv

-----------------------------------------------------------------------------
\* Opening a database makes the file's pages, or a fresh pair, the view.

LEMMA OpenNewInv == IInv /\ OpenNew => IInv'
<1> SUFFICES ASSUME IInv, OpenNew PROVE IInv'
  OBVIOUS
<1>1. TypeOK /\ SavedWhole /\ FileIsSaved /\ file_length = 0
  BY LengthReadExact DEF IInv, OpenNew, Closed
<1>2. TypeOK'
  BY <1>1, PageTypes, PagesAssumption DEF OpenNew, TypeOK, PageNo, CatalogRoot, NoPage
<1>3. View'[0] = Header(NoPage) /\ View'[1] = Node(Blank)
  BY PageTypes, PagesAssumption DEF View, OpenNew, CatalogRoot, NoPages, PageNo
<1>4. FreeChain(<<>>, 0, View', NoPage, 2)
  BY <1>3 DEF FreeChain, Header, Node
<1>5. Whole(View, free_head, num_pages)'
  BY <1>3, <1>4, ChainMakesListSound, PagesAssumption DEF Whole, OpenNew, Header
<1>6. InSession'
  BY <1>1, <1>5 DEF InSession, OpenNew, CatalogRoot
<1> QED
  BY <1>1, <1>2, <1>6 DEF IInv, OpenNew, SavedWhole, FileIsSaved

LEMMA OpenExistingInv == IInv /\ OpenExisting => IInv'
<1> SUFFICES ASSUME IInv, OpenExisting PROVE IInv'
  OBVIOUS
<1>1. TypeOK /\ SavedWhole /\ FileIsSaved /\ LengthRead = file_length
  BY LengthReadExact DEF IInv, OpenExisting, Closed
<1>2. TypeOK'
  BY <1>1, PageTypes, PagesAssumption DEF OpenExisting, TypeOK, Page, PageNo
<1>3. View' = disk
  BY <1>1, PageTypes DEF View, OpenExisting, TypeOK
<1>4. Whole(disk, disk[0].link, file_length)
  BY <1>1 DEF SavedWhole, FileIsSaved, OpenExisting
<1>5. InSession'
  BY <1>1, <1>3, <1>4, PagesAssumption DEF InSession, OpenExisting, Whole
<1> QED
  BY <1>1, <1>2, <1>5 DEF IInv, OpenExisting, SavedWhole, FileIsSaved

-----------------------------------------------------------------------------
\* The calls of an open session.

LEMMA FetchInv == ASSUME NEW p \in PageNo PROVE IInv /\ Fetch(p) => IInv'
<1> SUFFICES ASSUME IInv, Fetch(p) PROVE IInv'
  OBVIOUS
<1>1. TypeOK /\ SavedWhole /\ InSession /\ FileIsSaved
  BY DEF IInv, Fetch
<1>2. TypeOK'
  BY <1>1 DEF Fetch, TypeOK
<1>3. View' = View
  BY <1>1 DEF View, Fetch, TypeOK
<1>4. InSession'
  BY <1>1, <1>3 DEF InSession, Fetch, PageNo, Whole
<1> QED
  BY <1>1, <1>2, <1>4 DEF IInv, Fetch, SavedWhole, FileIsSaved

LEMMA WriteNodeInv ==
  ASSUME NEW p \in PageNo, NEW contents \in Contents
  PROVE  IInv /\ WriteNode(p, contents) => IInv'
<1> SUFFICES ASSUME IInv, WriteNode(p, contents) PROVE IInv'
  OBVIOUS
<1>1. TypeOK /\ SavedWhole /\ InSession /\ FileIsSaved
  BY DEF IInv, WriteNode
<1>2. TypeOK'
  BY <1>1, PageTypes DEF WriteNode, TypeOK
<1>3. View[p].kind = "node" /\ View' = [View EXCEPT ![p] = Node(contents)]
  BY <1>1 DEF View, WriteNode, TypeOK
<1>4. p # 0 /\ View'[0] = View[0]
  BY <1>1, <1>3, PageTypes DEF InSession, Whole, View
<1>5. View'[p].kind = "node"
  BY <1>3 DEF View, Node
<1>6. \A q \in 0..(num_pages - 1) : q # p => View'[q] = View[q]
  BY <1>1, <1>3, ViewType, OtherPagesKept DEF InSession, Whole
<1>7. ListSound(View', free_head, num_pages)
  <2>1. \A q \in 0..(num_pages - 1) :
          View[q].kind = "free" \/ View'[q].kind = "free" => View'[q] = View[q]
    BY <1>3, <1>5, <1>6
  <2>2. num_pages \in Nat /\ ListSound(View, free_head, num_pages)
    BY <1>1 DEF InSession, Whole
  <2> QED
    BY <2>1, <2>2, UntouchedListSound
<1>8. InSession'
  BY <1>1, <1>4, <1>7 DEF InSession, Whole, WriteNode
<1> QED
  BY <1>1, <1>2, <1>8 DEF IInv, WriteNode, SavedWhole, FileIsSaved

LEMMA ReuseInv == IInv /\ Reuse => IInv'
<1> SUFFICES ASSUME IInv, Reuse PROVE IInv'
  OBVIOUS
<1>1. TypeOK /\ SavedWhole /\ InSession /\ FileIsSaved
  BY DEF IInv, Reuse
<1>2. free_head \in PageNo /\ free_head # 0 /\ View[free_head].link \in PageNo
  BY <1>1, ViewType DEF TypeOK, Reuse, Page, NoPage
<1>3. TypeOK'
  BY <1>1, <1>2, PageTypes, ContentsAssumption DEF Reuse, TypeOK
<1>4. View' = [View EXCEPT ![free_head] = Node(Blank)]
  BY <1>1, <1>2 DEF View, Reuse, TypeOK
<1>5. free_head \in 0..(num_pages - 1)
  BY <1>1, HeadIsFree DEF InSession, Whole
<1>6. View'[free_head].kind # "free"
  BY <1>2, <1>4 DEF View, Node
<1>7. \A p \in 0..(num_pages - 1) : p # free_head => View'[p] = View[p]
  BY <1>1, <1>4, ViewType, OtherPagesKept DEF InSession, Whole
<1>8. ListSound(View', View[free_head].link, num_pages)
  BY <1>1, <1>6, <1>7, ShorterListSound DEF InSession, Whole, Reuse
<1>9. InSession'
  BY <1>1, <1>2, <1>5, <1>7, <1>8 DEF InSession, Whole, Reuse
<1> QED
  BY <1>1, <1>3, <1>9 DEF IInv, Reuse, SavedWhole, FileIsSaved

LEMMA ExtendInv == IInv /\ Extend => IInv'
<1> SUFFICES ASSUME IInv, Extend PROVE IInv'
  OBVIOUS
<1>1. TypeOK /\ SavedWhole /\ InSession /\ FileIsSaved
  BY DEF IInv, Extend
<1>2. num_pages \in PageNo /\ num_pages \in 2..(MaxPages - 1)
  BY <1>1, PagesAssumption DEF InSession, Whole, Extend, PageNo
<1>3. TypeOK'
  BY <1>1, <1>2, PageTypes, ContentsAssumption, PagesAssumption DEF Extend, TypeOK
<1>4. View' = [View EXCEPT ![num_pages] = Node(Blank)]
  BY <1>1, <1>2 DEF View, Extend, TypeOK
<1>5. View'[num_pages].kind # "free"
  BY <1>2, <1>4 DEF View, Node
<1>6. \A p \in 0..(num_pages - 1) : View'[p] = View[p]
  BY <1>1, <1>2, <1>4, ViewType, OtherPagesKept DEF InSession, Whole
<1>7. ListSound(View', free_head, num_pages + 1)
  BY <1>1, <1>2, <1>5, <1>6, ExtendedListSound DEF InSession, Whole
<1>8. Whole(View, free_head, num_pages)'
  <2>1. View'[0].kind = "header"
    BY <1>1, <1>2, <1>6 DEF InSession, Whole
  <2>2. num_pages' \in 2..MaxPages /\ num_pages' = num_pages + 1 /\ free_head' = free_head
    BY <1>2, PagesAssumption DEF Extend
  <2> QED
    BY <1>7, <2>1, <2>2 DEF Whole
<1>9. \A p \in file_length..num_pages : p \in resident'
  BY <1>1, <1>2 DEF InSession, Extend, TypeOK
<1>10. InSession'
  BY <1>1, <1>2, <1>8, <1>9 DEF InSession, Extend, TypeOK
<1> QED
  BY <1>1, <1>3, <1>10 DEF IInv, Extend, SavedWhole, FileIsSaved

LEMMA FreeNodeInv == ASSUME NEW p \in PageNo PROVE IInv /\ FreeNode(p) => IInv'
<1> SUFFICES ASSUME IInv, FreeNode(p) PROVE IInv'
  OBVIOUS
<1>1. TypeOK /\ SavedWhole /\ InSession /\ FileIsSaved
  BY DEF IInv, FreeNode
<1>2. TypeOK'
  BY <1>1, PageTypes DEF FreeNode, TypeOK
<1>3. View' = [View EXCEPT ![p] = Free(free_head)]
  BY <1>1 DEF View, FreeNode, TypeOK
<1>4. p # 0 /\ p \in 1..(num_pages - 1)
  BY <1>1 DEF InSession, Whole, FreeNode, PageNo
<1>5. View'[p].kind = "free" /\ View'[p].link = free_head /\ View[p].kind # "free"
  BY <1>3 DEF View, Free, FreeNode
<1>6. \A q \in 0..(num_pages - 1) : q # p => View'[q] = View[q]
  BY <1>1, <1>3, ViewType, OtherPagesKept DEF InSession, Whole
<1>7. ListSound(View', p, num_pages)
  BY <1>1, <1>4, <1>5, <1>6, LongerListSound DEF InSession, Whole
<1>8. InSession'
  BY <1>1, <1>4, <1>6, <1>7 DEF InSession, Whole, FreeNode
<1> QED
  BY <1>1, <1>2, <1>8 DEF IInv, FreeNode, SavedWhole, FileIsSaved

-----------------------------------------------------------------------------
\* db_close, and the ends of a session.

LEMMA BeginCloseInv == IInv /\ BeginClose => IInv'
<1> SUFFICES ASSUME IInv, BeginClose PROVE IInv'
  OBVIOUS
<1>1. TypeOK /\ SavedWhole /\ InSession /\ FileIsSaved
  BY DEF IInv, BeginClose
<1>2. TypeOK'
  BY <1>1, PageTypes, PagesAssumption DEF BeginClose, TypeOK
<1>3. View' = [View EXCEPT ![0] = Header(free_head)] /\ cache'[0] = Header(free_head)
  BY <1>1, PageTypes DEF View, BeginClose, TypeOK, InSession
<1>4. View[0].kind = "header" /\ View'[0].kind = "header"
  BY <1>1, <1>3, PageTypes DEF View, InSession, Whole, Header
<1>5. \A q \in 0..(num_pages - 1) : q # 0 => View'[q] = View[q]
  BY <1>1, <1>3, ViewType, OtherPagesKept DEF InSession, Whole
<1>6. ListSound(View', free_head, num_pages)
  BY <1>1, <1>4, <1>5, UntouchedListSound DEF InSession, Whole
<1>7. InSession'
  BY <1>1, <1>4, <1>6 DEF InSession, Whole, BeginClose
<1>8. Closing'
  BY <1>1, <1>3 DEF Closing, BeginClose, TypeOK, InSession, PageNo
<1> QED
  BY <1>1, <1>2, <1>7, <1>8 DEF IInv, BeginClose, SavedWhole

LEMMA FlushPageInv == IInv /\ FlushPage => IInv'
<1> SUFFICES ASSUME IInv, FlushPage PROVE IInv'
  OBVIOUS
<1>1. TypeOK /\ SavedWhole /\ InSession /\ Closing
  BY DEF IInv, FlushPage
<1>2. TypeOK'
  BY <1>1, PagesAssumption DEF FlushPage, TypeOK
<1>3. View' = View
  BY <1>1 DEF View, FlushPage, TypeOK
<1>4. InSession'
  BY <1>1, <1>3 DEF InSession, FlushPage, TypeOK, Whole
<1>5. Closing'
  <2>1. flushed \in PageNo /\ flushed' = flushed + 1 /\ flushed \in Nat
    BY <1>1 DEF FlushPage, TypeOK
  <2>2. flushed' <= num_pages' /\ flushed' <= file_length'
    BY <1>1, <2>1 DEF FlushPage, InSession, Whole, TypeOK
  <2>3. \A p \in resident : p < flushed' => disk'[p] = cache[p]
    BY <1>1, <2>1 DEF Closing, FlushPage, TypeOK, PageNo
  <2> QED
    BY <1>1, <2>2, <2>3 DEF Closing, FlushPage
<1> QED
  BY <1>1, <1>2, <1>4, <1>5 DEF IInv, FlushPage, SavedWhole

LEMMA SkipPageInv == IInv /\ SkipPage => IInv'
<1> SUFFICES ASSUME IInv, SkipPage PROVE IInv'
  OBVIOUS
<1>1. TypeOK /\ SavedWhole /\ InSession /\ Closing
  BY DEF IInv, SkipPage
<1>2. TypeOK'
  BY <1>1, PagesAssumption DEF SkipPage, TypeOK
<1>3. View' = View
  BY DEF View, SkipPage
<1>4. InSession'
  BY <1>1, <1>3 DEF InSession, SkipPage, Whole
<1>5. flushed < file_length
  BY <1>1 DEF InSession, SkipPage, TypeOK
<1>6. Closing'
  BY <1>1, <1>5 DEF Closing, SkipPage, TypeOK, PageNo
<1> QED
  BY <1>1, <1>2, <1>4, <1>6 DEF IInv, SkipPage, SavedWhole

LEMMA ForgetTypes == TypeOK /\ Forget /\ UNCHANGED <<disk, file_length, saved>> => TypeOK'
  BY PageTypes, PagesAssumption DEF TypeOK, Forget

LEMMA FinishCloseInv == IInv /\ FinishClose => IInv'
<1> SUFFICES ASSUME IInv, FinishClose PROVE IInv'
  OBVIOUS
<1>1. TypeOK /\ InSession /\ Closing
  BY DEF IInv, FinishClose
<1>2. file_length = num_pages
  BY <1>1 DEF InSession, Closing, FinishClose, TypeOK
<1>3. View = disk
  BY <1>1 DEF View, InSession, Closing, FinishClose, TypeOK
<1>4. TypeOK'
  BY <1>1, ViewType, PageTypes, PagesAssumption DEF FinishClose, Forget, TypeOK
<1>5. View[0] = Header(free_head)
  BY <1>1, PageTypes DEF View, InSession, Closing
<1>6. SavedWhole'
  BY <1>1, <1>5 DEF SavedWhole, FinishClose, InSession, Header
<1>7. Closed'
  BY <1>2, <1>3 DEF Closed, FileIsSaved, FinishClose, Forget
<1> QED
  BY <1>4, <1>6, <1>7 DEF IInv, FinishClose, Forget

LEMMA DieInv == IInv /\ Die => IInv'
<1> SUFFICES ASSUME IInv, Die PROVE IInv'
  OBVIOUS
<1>1. TypeOK /\ SavedWhole /\ FileIsSaved
  BY DEF IInv, Die
<1>2. TypeOK'
  BY <1>1, ForgetTypes DEF Die
<1>3. SavedWhole' /\ Closed'
  BY <1>1 DEF SavedWhole, Closed, FileIsSaved, Die, Forget
<1> QED
  BY <1>2, <1>3 DEF IInv, Die, Forget

-----------------------------------------------------------------------------
LEMMA StepInv == IInv /\ [Next]_vars => IInv'
<1> SUFFICES ASSUME IInv, [Next]_vars PROVE IInv'
  OBVIOUS
<1>1. CASE OpenNew
  BY <1>1, OpenNewInv
<1>2. CASE OpenExisting
  BY <1>2, OpenExistingInv
<1>3. CASE Use
  BY <1>3, FetchInv, FreeNodeInv, WriteNodeInv, ReuseInv, ExtendInv DEF Use
<1>4. CASE BeginClose
  BY <1>4, BeginCloseInv
<1>5. CASE FlushPage
  BY <1>5, FlushPageInv
<1>6. CASE SkipPage
  BY <1>6, SkipPageInv
<1>7. CASE FinishClose
  BY <1>7, FinishCloseInv
<1>8. CASE Die
  BY <1>8, DieInv
<1>9. CASE UNCHANGED vars
  BY <1>9 DEF vars, IInv, TypeOK, SavedWhole, Closed, FileIsSaved, InSession, Closing, Whole, View
<1> QED
  BY <1>1, <1>2, <1>3, <1>4, <1>5, <1>6, <1>7, <1>8, <1>9 DEF Next

LEMMA Invariance == Spec => []IInv
<1> QED
  BY InitInv, StepInv, PTL DEF Spec

\* Every page, page number and counter stays within the database, however many
\* sessions open, use, close or lose it.
THEOREM TypeCorrect == Spec => []TypeOK
<1>1. IInv => TypeOK
  BY DEF IInv
<1> QED
  BY <1>1, Invariance, PTL

\* pager_allocate_page never hands out a page in use and pager_free_page never
\* loses one, for any database size and any sequence of sessions.
THEOREM FreeListStaysIntact == Spec => []FreeListIntact
<1>1. IInv => FreeListIntact
  <2> SUFFICES ASSUME IInv, session # "closed" PROVE FreeListSound(View, free_head, num_pages)
    BY DEF FreeListIntact
  <2>1. Whole(View, free_head, num_pages)
    BY DEF IInv, TypeOK, InSession
  <2> QED
    BY <2>1, SoundListBounded DEF Whole
<1> QED
  BY <1>1, Invariance, PTL

\* A session that ends before db_close costs exactly its own changes.
THEOREM OnlyUnsavedLost == Spec => []OnlyUnsavedChangesLost
<1>1. IInv => OnlyUnsavedChangesLost
  BY DEF IInv, Closed, FileIsSaved, OnlyUnsavedChangesLost
<1> QED
  BY <1>1, Invariance, PTL

\* What a complete db_close wrote opens again: its header is valid and its free
\* list sound.
THEOREM SavedSurvives == Spec => []SavedDatabaseSurvives
<1>1. IInv => SavedDatabaseSurvives
  <2> SUFFICES ASSUME IInv, session = "closed", saved.length > 0
               PROVE  HeaderValid /\ FreeListSound(disk, disk[0].link, file_length)
    BY DEF SavedDatabaseSurvives
  <2>1. Whole(disk, disk[0].link, file_length) /\ LengthRead = file_length
    BY LengthReadExact DEF IInv, Closed, FileIsSaved, SavedWhole
  <2>2. FreeListSound(disk, disk[0].link, file_length)
    BY <2>1, SoundListBounded DEF Whole
  <2>3. disk[0].link \in 0..(file_length - 1)
    BY <2>1, HeadIsFree DEF Whole
  <2>4. HeaderValid
    BY <2>1, <2>3 DEF HeaderValid, Whole, CatalogRoot
  <2> QED
    BY <2>2, <2>4
<1> QED
  BY <1>1, Invariance, PTL

=============================================================================
