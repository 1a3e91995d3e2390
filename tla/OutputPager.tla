---------------------------- MODULE OutputPager ----------------------------
(***************************************************************************)
(* OutputPager (app/utils/paging.py): a text too long for one message is   *)
(* cut into pages.  A text is a sequence of symbols, "n" the end of a line.*)
(***************************************************************************)
EXTENDS Integers, Sequences, SequencesExt

(* chunk.rfind("\n"), counted from 0 as in the code: -1 if there is none.  *)
NewlineIdx(chunk) == SelectLastInSeq(chunk, LAMBDA s : s = "n") - 1

(* How much of the remaining text becomes the next page, and how much is   *)
(* taken away from it: with a page that ends at a newline the newline too. *)
LateEnough(i, size) == i > size \div 2
PageLength(rest, size) ==
  LET i == NewlineIdx(SubSeq(rest, 1, size)) IN
  IF Len(rest) <= size THEN Len(rest) ELSE IF LateEnough(i, size) THEN i ELSE size
TakenAll(rest, size) == PageLength(rest, size) + 1         \* fault: a symbol goes always
Taken(rest, size) ==
  LET p == PageLength(rest, size) IN
  IF p < Len(rest) /\ p < size THEN p + 1 ELSE p

(* _split_pages: one page at least.                                        *)
SplitPages(text, size) ==
  LET PagesFrom[i \in 1..(Len(text) + 1)] ==
        LET rest == SubSeq(text, i, Len(text)) IN
        IF rest = <<>> THEN <<>>
        ELSE <<SubSeq(rest, 1, PageLength(rest, size))>> \o PagesFrom[i + Taken(rest, size)]
  IN  IF Len(text) <= size THEN <<text>> ELSE PagesFrom[1]

(* get_page: a page number that does not exist is the nearest one.         *)
GetPage(pages, n) == LET i == n - 1 IN
  pages[(IF i < 0 THEN 0 ELSE IF i > Len(pages) - 1 THEN Len(pages) - 1 ELSE i) + 1]

(* keyboard: the pages that its buttons lead to.                           *)
Buttons(current, total) == {p \in {current - 1, current + 1} : p \in 1..total}

-----------------------------------------------------------------------------
(* What the pages are to be put together again: a page that is not full    *)
(* ended at a newline.                                                     *)
Rejoined(pages, size) ==
  FlattenSeq([i \in DOMAIN pages |->
    IF i < Len(pages) /\ Len(pages[i]) < size THEN Append(pages[i], "n") ELSE pages[i]])

(* The text in pages of this size: the pages together are the text, none is*)
(* too long and none but the last less than half full, and the buttons lead*)
(* from the first page to every other and back.                            *)
WellPaged(text, size) ==
  LET pages == SplitPages(text, size)
      total == Len(pages)
  IN  /\ Rejoined(pages, size) = text
      /\ \A i \in 1..total : Len(pages[i]) <= size /\ GetPage(pages, i) = pages[i]
      /\ \A i \in 1..total - 1 : /\ Len(pages[i]) > size \div 2
                                 /\ i + 1 \in Buttons(i, total) /\ i \in Buttons(i + 1, total)
=============================================================================
