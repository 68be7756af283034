------------------------------- MODULE Database -------------------------------
(***************************************************************************)
(* The tables of a database file over its sessions (database.c,            *)
(* catalog.c): CREATE TABLE gives the new table a root leaf, records it as *)
(* a row of the catalog, itself a b+tree of module BTree, and adds it to   *)
(* the open tables; opening the file again rebuilds them from those rows.  *)
(*                                                                         *)
(* Closing writes the whole database in one step here; module Pager takes  *)
(* it page by page, and shows that a session that dies leaves the file as  *)
(* the last db_close wrote it.  Opening that again is opening it as it was *)
(* opened before, so deaths are left out here, and so is the file while a  *)
(* session has it open.  The text of a definition stands for what parsing  *)
(* it gives, the table's name.                                             *)
(***************************************************************************)
EXTENDS BTreeProperties

CONSTANTS
  Names,      \* the names statements give tables
  Busy        \* a bound: only the first Busy tables have rows

ASSUME NamesAssumption == \A name \in Names : name.upper \in BOOLEAN /\ name.word # "none"
ASSUME BusyAssumption == Busy \in Nat

VARIABLES
  session,        \* "closed", "loading" or "open"
  tables,         \* the open tables in creation order, each a name and a root
  next_table_id,
  catalog_rows,   \* the rest of the catalog's row with each id
  creating,       \* the table CREATE TABLE is making, NoTable if there is none
  disk,           \* the file, NoFile while a session has it open
  saved           \* not part of the program: the tables the last db_close had open

database_vars == <<session, tables, next_table_id, catalog_rows, creating>>
all_vars == <<vars, database_vars, disk, saved>>

\* A name is a word and the case it is written in.
NoTable == [name |-> [word |-> "none", upper |-> FALSE], root |-> NoPage]
EmptyFile == [pages |-> <<>>, free_head |-> NoPage, catalog_rows |-> <<>>]
NoFile == [EmptyFile EXCEPT !.free_head = -1]

DatabaseInit ==
  /\ pages = <<>> /\ free_head = NoPage /\ roots = {} /\ max_keys \in Builds
  /\ stack = <<>> /\ reply = TRUE
  /\ session = "closed" /\ tables = <<>> /\ next_table_id = 1
  /\ catalog_rows = <<>> /\ creating = NoTable
  /\ disk = EmptyFile /\ saved = <<>>

\* Mutant of schema_names_equal: USERS and users are two names.
SameSpelling(a, b) == a = b

\* Names are compared without their case.
schema_names_equal(a, b) == a.word = b.word

database_find_table(name) == {i \in DOMAIN tables : schema_names_equal(tables[i].name, name)}

-----------------------------------------------------------------------------
\* db_open on an empty file: the header, then the catalog's root.
OpenNew ==
  /\ session = "closed" /\ disk = EmptyFile
  /\ pages' = <<EmptyRoot>>
  /\ roots' = {CatalogRoot}
  /\ session' = "open"
  /\ next_table_id' = 1
  /\ disk' = NoFile
  /\ UNCHANGED <<free_head, max_keys, stack, reply, tables, catalog_rows, creating, saved>>

OpenExisting ==
  /\ session = "closed" /\ disk # EmptyFile
  /\ pages' = disk.pages
  /\ free_head' = disk.free_head
  /\ catalog_rows' = disk.catalog_rows
  /\ roots' = {CatalogRoot}
  /\ session' = "loading"
  /\ next_table_id' = 1
  /\ disk' = NoFile
  /\ UNCHANGED <<max_keys, stack, reply, tables, creating, saved>>

\* catalog_load: the ids of the catalog's rows, along its leaves.
CatalogIds == KeysIn(ScannedLeaves(CatalogRoot))
Entries == [i \in DOMAIN CatalogIds |-> catalog_rows[CatalogIds[i]]]

\* Mutant of NodePages: the last page of the file does not count.
AllButLastPage == 1..Len(pages) - 1

NodePages == 1..Len(pages)

Loadable == \A i \in DOMAIN Entries : Entries[i].root \in NodePages

NextId(ids) == Max({id + 1 : id \in ToSet(ids)} \cup {1})

LoadTables ==
  /\ session = "loading"
  /\ Loadable
  /\ tables' = Entries
  /\ roots' = roots \cup {Entries[i].root : i \in DOMAIN Entries}
  /\ next_table_id' = NextId(CatalogIds)
  /\ session' = "open"
  /\ saved' = <<>>
  /\ UNCHANGED <<pages, free_head, max_keys, stack, reply, catalog_rows, creating, disk>>

-----------------------------------------------------------------------------
Ready == session = "open" /\ Idle /\ creating = NoTable

\* The entry becomes a row of the catalog, by way of table_insert; the stack is
\* empty when CREATE TABLE begins.
catalog_add(id, entry) ==
  /\ catalog_rows' = (id :> entry) @@ catalog_rows
  /\ stack' = <<Call("table_insert", CatalogRoot, NoPage, id)>>

\* database_create_table up to the catalog insert: bind_create_table has found
\* the name free.
CreateTable(name) ==
  /\ Ready
  /\ database_find_table(name) = {}
  /\ creating' = [name |-> name, root |-> NextPage]
  /\ pages' = Put(pages, NextPage, EmptyRoot)
  /\ TakePage
  /\ catalog_add(next_table_id, creating')
  /\ next_table_id' = next_table_id + 1
  /\ UNCHANGED <<roots, max_keys, reply, session, tables, disk, saved>>

\* Mutant of AddTable: the table joins the front of the open tables.
AddTableFirst ==
  /\ creating # NoTable /\ Idle
  /\ tables' = <<creating>> \o tables
  /\ roots' = roots \cup {creating.root}
  /\ creating' = NoTable
  /\ UNCHANGED <<pages, free_head, max_keys, stack, reply, session, next_table_id,
                 catalog_rows, disk, saved>>

AddTable ==
  /\ creating # NoTable /\ Idle
  /\ tables' = Append(tables, creating)
  /\ roots' = roots \cup {creating.root}
  /\ creating' = NoTable
  /\ UNCHANGED <<pages, free_head, max_keys, stack, reply, session, next_table_id,
                 catalog_rows, disk, saved>>

ChangeRow(i, key) ==
  /\ Ready
  /\ i <= Busy
  /\ CallInsert(tables[i].root, key) \/ CallDelete(tables[i].root, key)
  /\ UNCHANGED <<database_vars, disk, saved>>

TreeStep == Step /\ UNCHANGED <<database_vars, disk, saved>>

\* .exit: db_close writes everything, and nothing is left in memory.
CloseDatabase ==
  /\ Ready
  /\ disk' = [pages |-> pages, free_head |-> free_head, catalog_rows |-> catalog_rows]
  /\ saved' = tables
  /\ pages' = <<>> /\ free_head' = NoPage /\ roots' = {} /\ reply' = TRUE
  /\ session' = "closed" /\ tables' = <<>> /\ next_table_id' = 1 /\ catalog_rows' = <<>>
  /\ UNCHANGED <<max_keys, stack, creating>>

DatabaseNext ==
  \/ OpenNew \/ OpenExisting \/ LoadTables
  \/ \E name \in Names : CreateTable(name)
  \/ AddTable
  \/ \E i \in DOMAIN tables, key \in Keys : ChangeRow(i, key)
  \/ TreeStep
  \/ CloseDatabase

DatabaseSpec == DatabaseInit /\ [][DatabaseNext]_all_vars

-----------------------------------------------------------------------------
\* The open tables are, in order, those the catalog lists: what the session has
\* in memory is what it would find if it opened the file it is about to write.
CatalogListsTables == Ready => tables = Entries

\* Names, case aside, and root pages tell tables apart, and every root is a
\* tree's root on a page of its own: not the catalog's, not a free page, though
\* CREATE TABLE takes pages that other tables' merges have freed.
TablesAreDistinct ==
  LET all == tables \o IF creating = NoTable THEN <<>> ELSE <<creating>>
  IN  /\ \A i, j \in DOMAIN all : i # j =>
           all[i].name.word # all[j].name.word /\ all[i].root # all[j].root
      /\ session = "open" => \A i \in DOMAIN all :
           all[i].root # CatalogRoot /\ pages[all[i].root].is_root
           /\ pages[all[i].root].type # "free"

\* Opening a file that db_close has written is not refused, and brings back
\* exactly the tables that were open then.
SavedTablesReturn == session = "loading" => Loadable /\ Entries = saved

=============================================================================
