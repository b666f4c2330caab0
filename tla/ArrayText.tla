------------------------------- MODULE ArrayText -------------------------------
(***************************************************************************)
(* The reader of the text format of arrays (parseArray, array.go).  It is  *)
(* a loop with jumps between four places, over bytes that come from the    *)
(* server, and it indexes and divides by what it has counted on the way:   *)
(* dims[depth-1], len(elems) % d, and GenericArray.Scan slices the         *)
(* elements by dims[0].  Here each place is a value of pc, and each way    *)
(* through a loop a step.  Bytes are their codes.                          *)
(***************************************************************************)
EXTENDS Text

CONSTANTS
    Sources,        \* texts to parse
    Delimiters      \* what separates elements: "," or that of ArrayDelimiter

NULL == <<78, 85, 76, 76>>

ASSUME SourcesAssumption == Sources \subseteq Seq(Byte)
ASSUME DelimitersAssumption == Delimiters \subseteq Seq(Byte) \ {<<>>}

VARIABLES
    src, del,       \* the text, and the delimiter
    i,              \* the position in the text, from 1 on
    pc,             \* "start", "open", "element", "quoted", "plain", "after",
                    \* "close", "done" or "error"
    depth,          \* open brackets
    dims,           \* the length of each dimension
    elems,          \* the elements so far
    elem, escape    \* the element in quotes; or the unquoted one

input == <<src, del>>
parser == <<i, pc, depth, dims, elems, elem, escape>>
vars == <<input, parser>>

(* Mistakes the code could have made, as mutated forms for the properties.   *)
NotCounted(n) == n                      \* one more element is not counted
NeverTooDeep == FALSE                   \* brackets may nest deeper than at first

--------------------------------------------------------------------------------

AtEnd == i > Len(src)
At(c) == ~AtEnd /\ src[i] = c
AtDelimiter ==
    /\ i + Len(del) - 1 <= Len(src)
    /\ SubSeq(src, i, i + Len(del) - 1) = del

Fails == pc' = "error" /\ UNCHANGED <<input, i, depth, dims, elems, elem, escape>>
Goes(place) == pc' = place /\ UNCHANGED <<input, i, depth, dims, elems, elem, escape>>

Start ==
    /\ pc = "start"
    /\ IF At(LBrace) THEN Goes("open") ELSE Fails

Open ==
    /\ pc = "open"
    /\ \/ /\ At(LBrace)
          /\ depth' = depth + 1 /\ i' = i + 1
          /\ UNCHANGED <<input, pc, dims, elems, elem, escape>>
       \/ At(RBrace) /\ Goes("close")
       \/ /\ ~At(LBrace) /\ ~At(RBrace)
          /\ dims' = [k \in 1..depth |-> 0] /\ pc' = "element"
          /\ UNCHANGED <<input, i, depth, elems, elem, escape>>

TooDeep == depth = Len(dims)

ElementOpens ==
    /\ pc = "element" /\ At(LBrace)
    /\ IF TooDeep
       THEN Goes("after")
       ELSE /\ depth' = depth + 1 /\ dims' = [dims EXCEPT ![depth + 1] = 0]
            /\ i' = i + 1
            /\ UNCHANGED <<input, pc, elems, elem, escape>>

ElementStarts ==
    /\ pc = "element" /\ ~At(LBrace)
    /\ elem' = <<>> /\ escape' = FALSE
    /\ IF AtEnd THEN pc' = "after" /\ UNCHANGED i
       ELSE IF At(Quote) THEN pc' = "quoted" /\ i' = i + 1
       ELSE pc' = "plain" /\ UNCHANGED i
    /\ UNCHANGED <<input, depth, dims, elems>>

\* An element in quotes, byte by byte; the text may end before it does.
Quoted ==
    /\ pc = "quoted"
    /\ IF AtEnd THEN Goes("after")
       ELSE /\ i' = i + 1
            /\ UNCHANGED <<input, depth, dims>>
            /\ IF escape \/ src[i] \notin {Bslash, Quote}
               THEN /\ elem' = Append(elem, src[i]) /\ escape' = FALSE
                    /\ UNCHANGED <<pc, elems>>
               ELSE IF src[i] = Bslash
               THEN escape' = TRUE /\ UNCHANGED <<pc, elems, elem>>
               ELSE /\ elems' = Append(elems, elem) /\ pc' = "after"
                    /\ UNCHANGED <<elem, escape>>

\* An element without quotes, up to a delimiter or a bracket.
Plain ==
    /\ pc = "plain"
    /\ IF AtEnd THEN Goes("after")
       ELSE IF ~AtDelimiter /\ ~At(RBrace)
       THEN /\ elem' = Append(elem, src[i]) /\ i' = i + 1
            /\ UNCHANGED <<input, pc, depth, dims, elems, escape>>
       ELSE IF elem = <<>> THEN Fails
       ELSE /\ elems' = Append(elems, IF elem = NULL THEN Nil ELSE elem)
            /\ pc' = "after"
            /\ UNCHANGED <<input, i, depth, dims, elem, escape>>

Counted(n) == n + 1                     \* before a delimiter
CountedLast(n) == n + 1                 \* before a closing bracket

\* After an element comes another one, a closing bracket, or the end.
After ==
    /\ pc = "after"
    /\ IF AtEnd THEN Goes("close")
       ELSE IF depth > 0 /\ AtDelimiter
       THEN /\ dims' = [dims EXCEPT ![depth] = Counted(@)]
            /\ i' = i + Len(del) /\ pc' = "element"
            /\ UNCHANGED <<input, depth, elems, elem, escape>>
       ELSE IF depth > 0 /\ At(RBrace)
       THEN /\ dims' = [dims EXCEPT ![depth] = CountedLast(@)]
            /\ depth' = depth - 1 /\ i' = i + 1
            /\ UNCHANGED <<input, pc, elems, elem, escape>>
       ELSE Fails

\* len(elems) % d = 0
Divides(d, n) == \E q \in 0..n : n = d * q

Close ==
    /\ pc = "close"
    /\ IF ~AtEnd /\ At(RBrace) /\ depth > 0
       THEN /\ depth' = depth - 1 /\ i' = i + 1
            /\ UNCHANGED <<input, pc, dims, elems, elem, escape>>
       ELSE IF AtEnd /\ depth = 0 /\ \A k \in 1..Len(dims) : Divides(dims[k], Len(elems))
       THEN Goes("done")
       ELSE Fails

Begins ==
    /\ i = 1 /\ pc = "start"
    /\ depth = 0 /\ dims = <<>> /\ elems = <<>> /\ elem = <<>> /\ escape = FALSE

Init == src \in Sources /\ del \in Delimiters /\ Begins

Next ==
    \/ Start \/ Open \/ ElementOpens \/ ElementStarts \/ Quoted \/ Plain \/ After \/ Close

Spec == Init /\ [][Next]_vars

--------------------------------------------------------------------------------
(* Properties *)

\* The types of what is counted and collected; the position is one in the text or
\* beyond it.
TypeOK ==
    /\ depth \in Nat /\ dims \in Seq(Nat)
    /\ elems \in Seq(Seq(Byte) \cup {Nil}) /\ elem \in Seq(Byte)
    /\ src \in Seq(Byte) /\ i \in Nat \ {0}

\* Whatever the text, no index is out of range and nothing is divided by zero:
\* dims[depth-1] where brackets and elements are counted, len(elems) % d at the end.
NoFault ==
    /\ pc = "element" /\ At(LBrace) => depth <= Len(dims)
    /\ pc = "after" /\ depth > 0 => depth <= Len(dims)
    /\ pc = "close" /\ AtEnd /\ depth = 0 => \A k \in 1..Len(dims) : dims[k] # 0

\* What is accepted as an array of one dimension has as many elements as dims says:
\* GenericArray.Scan slices and indexes the elements by dims[0].
DimIsLength == pc = "done" /\ Len(dims) = 1 => dims[1] = Len(elems)
================================================================================
