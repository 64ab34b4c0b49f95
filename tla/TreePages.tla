----------------------------- MODULE TreePages -----------------------------
(* The stored form of one directory: its entries in name order, cut into
   pages of bounded size, with levels of branch pages above them: tree.rs.
   An object is named by its content, so two nodes are the same object iff
   they are equal. *)
EXTENDS Integers, Sequences, SequencesExt

CONSTANTS
    NameSize,       \* bytes of a name, by name; names are numbered in byte order
    PageTarget,     \* TARGET_TREE_PAGE_BYTES
    EntryRest,      \* bytes of an entry beyond its name: kind, mode, times, target
    RefRest,        \* bytes of a reference to a page beyond its two names
    PageRest        \* bytes of a page beyond its items

Separator == 1

EntrySize(e) == EntryRest + NameSize[e.name]
RefSize(page) == RefRest + NameSize[page.first] + NameSize[page.last]

(* The bytes of a page of items, each given with its size *)
Used(sized) ==
    PageRest + FoldLeft(LAMBDA n, item : n + item.size + Separator, 0, sized) - Separator

(* Items go to the open page while they fit; one item always does. *)
Paged(sized) ==
    LET Put(pages, item) ==
            IF pages # <<>> /\ Used(Append(Last(pages), item)) <= PageTarget
            THEN Front(pages) \o <<Append(Last(pages), item)>>
            ELSE Append(pages, <<item>>)
    IN  FoldLeft(Put, <<>>, sized)

Leaf(entries) ==
    [first |-> Head(entries).name, last |-> Last(entries).name,
     node |-> [entries |-> entries, pages |-> <<>>]]

Branch(pages) ==
    [first |-> Head(pages).first, last |-> Last(pages).last,
     node |-> [entries |-> <<>>, pages |-> pages]]

EmptyNode == [entries |-> <<>>, pages |-> <<>>]
Endless == [entries |-> <<>>, pages |-> <<"endless">>]

Items(page) == [i \in DOMAIN page |-> page[i].item]

Leaves(entries) ==
    LET pages == Paged([i \in DOMAIN entries |-> [item |-> entries[i], size |-> EntrySize(entries[i])]])
    IN  [i \in DOMAIN pages |-> Leaf(Items(pages[i]))]
BranchLevel(level) ==
    LET pages == Paged([i \in DOMAIN level |-> [item |-> level[i], size |-> RefSize(level[i])]])
    IN  [i \in DOMAIN pages |-> Branch(Items(pages[i]))]

(* Levels are added until one page is left. A level that is not shorter than
   the one below has the same names, and so have all above it. *)
RECURSIVE TopPage(_)
TopPage(level) ==
    IF Len(level) = 1 THEN level[1].node
    ELSE LET above == BranchLevel(level)
         IN  IF Len(above) = Len(level) THEN Endless ELSE TopPage(above)

WriteTree(entries) == IF entries = <<>> THEN EmptyNode ELSE TopPage(Leaves(entries))

(* Entries::next_entry to the end *)
RECURSIVE AllEntries(_)
AllEntries(node) ==
    IF node.pages = <<>> THEN node.entries
    ELSE FoldLeft(LAMBDA seen, page : seen \o AllEntries(page.node), <<>>, node.pages)

(* Mutant: an entry whose name ends a page is looked for in the next one. *)
CoversBefore(page, name) == page.first <= name /\ name < page.last

Covers(page, name) == page.first <= name /\ name <= page.last

RECURSIVE FindEntry(_, _)
FindEntry(node, name) ==
    IF node.pages = <<>> THEN SelectSeq(node.entries, LAMBDA e : e.name = name)
    ELSE LET hits == SelectSeq(node.pages, LAMBDA page : Covers(page, name))
         IN  IF hits = <<>> THEN <<>> ELSE FindEntry(Head(hits).node, name)

(* Two entry lists side by side: pairs of what was and what is. *)
RECURSIVE Joined(_, _)
Joined(left, right) ==
    CASE left = <<>> /\ right = <<>> -> {}
      [] left # <<>> /\ (right = <<>> \/ Head(left).name < Head(right).name) ->
            {<<<<Head(left)>>, <<>>>>} \cup Joined(Tail(left), right)
      [] right # <<>> /\ (left = <<>> \/ Head(left).name > Head(right).name) ->
            {<<<<>>, <<Head(right)>>>>} \cup Joined(left, Tail(right))
      [] OTHER ->
            (IF Head(left) = Head(right) THEN {} ELSE {<<<<Head(left)>>, <<Head(right)>>>>})
                \cup Joined(Tail(left), Tail(right))

Aligned(left, right) ==
    /\ left.pages # <<>> /\ Len(left.pages) = Len(right.pages)
    /\ \A i \in DOMAIN left.pages :
        /\ left.pages[i].first = right.pages[i].first
        /\ left.pages[i].last = right.pages[i].last

RECURSIVE DiffEntries(_, _)
DiffEntries(left, right) ==
    IF left = right THEN {}
    ELSE IF Aligned(left, right)
         THEN UNION {DiffEntries(left.pages[i].node, right.pages[i].node) :
                        i \in DOMAIN left.pages}
         ELSE Joined(AllEntries(left), AllEntries(right))
=============================================================================
