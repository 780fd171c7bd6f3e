---------------------------- MODULE MCItemPaging ----------------------------
EXTENDS ItemPaging

\* Two of the items were discovered at the same time.
MCDiscoveredAt == [i \in Items |-> IF i < 3 THEN 5 ELSE i]

MCQueries == [sortBy : {"discoveredAt", "price"}, order : {"asc", "desc"},
              limit : 1..2]

\* What a client gets that asks for nothing in particular.
MCDefaultQueries == [sortBy : {"discoveredAt"}, order : {"desc"}, limit : {2}]

=============================================================================
