---------------------------- MODULE MCCatalogue ----------------------------
(***************************************************************************)
(* Instances of Catalogue: two ISBNs and two names, of which a query for   *)
(* the first also finds the second.                                        *)
(***************************************************************************)
EXTENDS Catalogue, TLC

MCMatches == [n \in Names |-> IF n = "tla" THEN Names ELSE {n}]

Cmd(cmd) == [cmd |-> cmd, id |-> 1, isbn |-> "", name |-> "", count |-> 0,
             descr |-> "", level |-> 1]

MCCommands ==
  {[Cmd("library_insertBook") EXCEPT !.isbn = "i1", !.name = n, !.count = 1] :
      n \in {"tla", ""}}
  \union {[Cmd("library_insertBook") EXCEPT !.isbn = "i2", !.name = "tla+", !.count = 1]}
  \union {[Cmd("book_setBasicInfo") EXCEPT !.isbn = "i2", !.name = "tla", !.count = n] :
            n \in 0 .. 1}
  \union {[Cmd("book_deleteBook") EXCEPT !.count = n] : n \in {-1, 1}}
  \union {[Cmd(cmd) EXCEPT !.level = -1] :
            cmd \in {"book_getDescription", "library_queryById"}}
  \union {[Cmd("library_queryById") EXCEPT !.level = 3]}
  \union {[Cmd("library_queryByISBN") EXCEPT !.isbn = "i1"]}
  \union {[Cmd("library_queryByName") EXCEPT !.name = "tla"],
          [Cmd("book_setDescription") EXCEPT !.descr = "d"]}

(* The workers are interchangeable.                                        *)
Symmetric == Permutations(Workers)
=============================================================================
