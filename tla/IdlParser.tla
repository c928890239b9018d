----------------------------- MODULE IdlParser ------------------------------
(***************************************************************************)
(* idl/idl_parser.hpp: the parser reads a document line by line.  A line   *)
(* is represented by what the parser tells apart.                          *)
(***************************************************************************)
EXTENDS Integers, Sequences, FiniteSets

CONSTANT MaxLines   \* bound: lines of a document

\* blank: empty or a comment; quoted: a closing brace between double quotes;
\* struct_, service_: a header without an opening brace
Headers == {"struct", "service"}
Lines == Headers \cup {"blank", "namespace", "struct_", "service_", "field", "method", "brace", "quoted"}

VARIABLES lines,           \* history: the lines read so far
          block,           \* the loop the parser is in: parse, parse_struct, parse_service
          namespace_name,  \* whether it was set
          doc              \* the definitions in order: kind and members

vars == <<lines, block, namespace_name, doc>>

Init == lines = <<>> /\ block = "top" /\ namespace_name = FALSE /\ doc = <<>>

getline(l) == Len(lines) < MaxLines /\ lines' = Append(lines, l)

parse(l) ==
  /\ block = "top" /\ getline(l)
  /\ namespace_name' = (namespace_name \/ l = "namespace")
  /\ IF l \in Headers THEN block' = l /\ doc' = Append(doc, [kind |-> l, members |-> <<>>])
                      ELSE UNCHANGED <<block, doc>>

AddMember(l) == doc' = [doc EXCEPT ![Len(doc)].members = Append(@, l)]

\* mutant: the block ends at a blank line
EndsBlank(l) == l \in {"quoted", "blank"}
\* the line that ends a block
Ends(l) == l = "quoted"

\* a field is whatever has a space in it, a method whatever has parentheses
IsField(l) == l \notin {"blank", "brace"}
IsMethod(l) == l = "method"

parse_struct(l) ==
  /\ block = "struct" /\ getline(l)
  /\ block' = IF Ends(l) THEN "top" ELSE block
  /\ IF ~Ends(l) /\ IsField(l) THEN AddMember(l) ELSE UNCHANGED doc
  /\ UNCHANGED namespace_name

parse_service(l) ==
  /\ block = "service" /\ getline(l)
  /\ block' = IF Ends(l) THEN "top" ELSE block
  /\ IF ~Ends(l) /\ IsMethod(l) THEN AddMember(l) ELSE UNCHANGED doc
  /\ UNCHANGED namespace_name

Next == \E l \in Lines : parse(l) \/ parse_struct(l) \/ parse_service(l)
Spec == Init /\ [][Next]_vars

-----------------------------------------------------------------------------
Member(kind) == IF kind = "struct" THEN "field" ELSE "method"

\* the last header or end of a block before line i, 0 if none
Before(i, close) ==
  LET S == {j \in 1..(i - 1) : lines[j] \in Headers \cup {close}}
  IN IF S = {} THEN 0 ELSE CHOOSE j \in S : \A k \in S : k <= j

\* documents in which members are in blocks of their kind and blocks are closed by `close'
WellFormed(close) ==
  \A i \in DOMAIN lines :
    LET j == Before(i, close)
        open == j # 0 /\ lines[j] \in Headers
    IN /\ lines[i] \in Headers \cup {"namespace"} => ~open
       /\ lines[i] = close => open
       /\ lines[i] \in {"field", "method"} => open /\ lines[i] = Member(lines[j])
       /\ lines[i] \in Headers \cup {"namespace", "blank", "field", "method", close}

\* what such a document defines
Defined(close) ==
  LET H == {i \in DOMAIN lines : lines[i] \in Headers}
      nth(n) == CHOOSE i \in H : Cardinality({j \in H : j <= i}) = n
      members(i) == {k \in DOMAIN lines : lines[k] = Member(lines[i]) /\ Before(k, close) = i}
  IN [n \in 1..Cardinality(H) |->
        [kind |-> lines[nth(n)], members |-> [m \in 1..Cardinality(members(nth(n))) |-> Member(lines[nth(n)])]]]

\* Every variable has its type; inside a block there is a definition to add to.
TypeOK ==
  /\ block \in {"top"} \cup Headers /\ namespace_name \in BOOLEAN
  /\ block # "top" => doc # <<>> /\ doc[Len(doc)].kind = block

\* The parser finds the definitions of a well-formed document whose blocks end in the
\* line the code compares with, the closing brace between quotes.
ParsesQuoted == WellFormed("quoted") => doc = Defined("quoted")

\* docs/ARCHITECTURE.md's example of the syntax ends its blocks in "}": the parser
\* finds the definitions of such documents.
ParsesBraces == WellFormed("brace") => doc = Defined("brace")
=============================================================================
