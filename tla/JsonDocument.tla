---------------------------- MODULE JsonDocument ----------------------------
(***************************************************************************)
(* A Json::Value that is edited, written by one of the writers and read    *)
(* back by a reader: jsoncpp as a whole.  HTTP::Server::getRegistry() is   *)
(* one such use (an object whose members are arrays grown with append(),   *)
(* then toStyledString()).  An edit goes to the node Path::make() yields   *)
(* for a path, the same node a chain of operator[] yields; an edit whose   *)
(* precondition fails throws without a change and is no step here, except  *)
(* for resize(), whose assertion comes after the change.                   *)
(***************************************************************************)
EXTENDS JsonGrammar, JsonWriter, JsonTree

CONSTANTS Paths,         \* where an edit may go
          Leaves,        \* what may be stored
          RootLeaves,    \* what may be stored at the root, besides
          Indices,       \* indices and sizes
          Names,         \* member names
          Writers,       \* the writers a document is written with
          MaxNodes       \* bound: nodes of the tree

VARIABLES tree,          \* the value being edited
          written        \* the writer of doc, or Supplied

vars == <<tree, written, readerVars>>

Supplied == [class |-> "none", drop |-> FALSE, special |-> FALSE,
             multiline |-> FALSE]

RECURSIVE NodesOf(_)
NodesOf(v) == IF ~IsContainer(v) THEN 1
              ELSE 1 + FoldSet(LAMBDA k, acc : acc + NodesOf(Map(v)[k]), 0,
                               DOMAIN Map(v))

DocInit == Init /\ tree = Null /\ written = Supplied

Node(path) == Resolve(tree, path)

(* The node at path becomes x.                                             *)
Edit(path, x) ==
  /\ status = "idle" /\ CanMake(tree, path)
  /\ tree' = Put(tree, path, x)
  /\ NodesOf(tree') <= MaxNodes
  /\ UNCHANGED <<written, readerVars>>

Assign(path, x) == Edit(path, x)

AppendTo(path, x) ==
  /\ Accepts(Node(path), AtIndex(0))
  /\ Edit(path, Append1(Node(path), x))

ResizeAt(path, n) ==
  /\ Accepts(Node(path), AtIndex(0))
  /\ Edit(path, Resize(Node(path), n).v)

ClearAt(path) ==
  /\ IsContainer(Node(path))
  /\ Edit(path, ClearOf(Node(path)))

RemoveIndexAt(path, i) ==
  /\ Node(path).t = "array" /\ Found(Node(path), AtIndex(i))
  /\ Edit(path, RemoveIndex(Node(path), i))

RemoveMemberAt(path, k) ==
  /\ Node(path).t = "object" /\ Found(Node(path), AtKey(k))
  /\ Edit(path, RemoveMember(Node(path), k))

EditStep ==
  \E path \in Paths :
    \/ \E x \in Leaves \cup (IF path = <<>> THEN RootLeaves ELSE {}) :
         Assign(path, x)
    \/ \E x \in Leaves : AppendTo(path, x)
    \/ \E n \in Indices : ResizeAt(path, n) \/ RemoveIndexAt(path, n)
    \/ ClearAt(path)
    \/ \E k \in Names : RemoveMemberAt(path, k)

(* The tree is written, and the text read by a reader that allows what the *)
(* writer relies on.                                                       *)
Save(o) ==
  /\ o.drop => features.allowDroppedNullPlaceholders
  /\ o.special => features.allowSpecialFloats
  /\ Parse(Write(tree, o), TRUE)
  /\ written' = o
  /\ UNCHANGED tree

(* A document from elsewhere.                                              *)
Read ==
  /\ tree = Null
  /\ Parse(<<>>, FALSE)
  /\ written' = Supplied
  /\ UNCHANGED tree

(* The reader at work; what its user adds with pushError stays out.        *)
ReaderNext ==
  /\ Supply \/ Finish \/ ExceedStackLimit \/ Step \/ Return \/ EndParse
  /\ UNCHANGED <<tree, written>>

DocNext == EditStep \/ (\E o \in Writers : Save(o)) \/ Read \/ ReaderNext

DocSpec == DocInit /\ [][DocNext]_vars

(***************************************************************************)
(* What a written tree reads back as                                       *)
(***************************************************************************)
(* Signedness follows the size of the number, a gap becomes null, a NaN    *)
(* is written as null, and an array of one dropped null has nothing in it. *)
RECURSIVE ReadBack(_, _)
ReadBack(v, o) ==
  CASE v.t \in {"int", "uint"} -> IF v.n <= maxInt THEN IntValue(v.n)
                                  ELSE UIntValue(v.n)
    [] v.t = "real" -> IF v.r.k = "nan" /\ ~o.special THEN Null ELSE v
    [] v.t = "array" ->
         IF o.drop /\ Size(v) = 1 /\ ReadBack(v.elems[0], o) = Null
            /\ v.elems[0].t = "null"
         THEN ArrayValue(<<>>)
         ELSE ArrayValue([i \in 0 .. Size(v) - 1 |->
                            ReadBack(Lookup(v, AtIndex(i)), o)])
    [] v.t = "object" ->
         ObjectValue([k \in DOMAIN v.members |-> ReadBack(v.members[k], o)])
    [] OTHER -> v

RECURSIVE NamesOf(_)
NamesOf(v) ==
  IF ~IsContainer(v) THEN {}
  ELSE (IF v.t = "object" THEN DOMAIN v.members ELSE {})
       \cup UNION {NamesOf(Map(v)[k]) : k \in DOMAIN Map(v)}
NulFree == \A k \in NamesOf(tree) : CString(k) = k

(* The nulls at the end of an array, which its size may or may not count.  *)
TrimNulls(s) ==
  SubSeq(s, 1, Max({0} \cup {i \in DOMAIN s : s[i] # Null}))

(***************************************************************************)
(* Properties                                                              *)
(***************************************************************************)
(* What any writer writes, a reader with the matching features accepts and *)
(* reads back as the same tree, up to the representation changes of        *)
(* ReadBack.  Excluded: a scalar root for a strict reader, a dropped null  *)
(* as the whole document, and NUL bytes in StyledWriter's names.           *)
RoundTrip ==
  /\ Ended /\ written # Supplied
  /\ features.strictRoot => IsContainer(tree)
  /\ written.drop => tree # Null
  /\ written.class = "styled" => NulFree
  => status = "ok" /\ root = ReadBack(tree, written)

(* The writers agree on the text, layout aside: the elements StyledWriter  *)
(* keeps aside in childValues_ while it decides on the layout of an array  *)
(* are never those of another array, and none is lost or repeated.         *)
WritersAgree ==
  status = "idle" /\ NulFree =>
    \A o \in Writers : Write(tree, o) = FastWrite(tree, [o EXCEPT !.class = "fast"])

(* removeIndex and resize keep the order and the values of the elements    *)
(* they do not remove, also in arrays with gaps (up to nulls at the end).  *)
EditsLoseNothing ==
  [][\A path \in Paths, n \in Indices :
       /\ RemoveIndexAt(path, n) =>
            TrimNulls(DenseOf(Resolve(tree', path))) =
              TrimNulls(RemoveAt(DenseOf(Node(path)), n + 1))
       /\ ResizeAt(path, n) /\ Node(path).t = "array" =>
            TrimNulls(DenseOf(Resolve(tree', path))) =
              TrimNulls(SubSeq(DenseOf(Node(path)), 1,
                               IF n < Size(Node(path)) THEN n ELSE Size(Node(path))))]_tree

(* An assignment through a path is seen through that path, and through no  *)
(* other one that does not lead to it or through it.                       *)
AssignIsLocal ==
  [][\A path \in Paths, x \in Leaves :
       Assign(path, x) =>
         /\ Resolve(tree', path) = x
         /\ \A other \in Paths :
              ~IsPrefix(path, other) /\ ~IsPrefix(other, path) =>
                Resolve(tree', other) = Node(other)]_tree

(* The conversions of the value being edited agree with each other.        *)
ConversionsAgree == ConversionsSound(tree)

(* An edit yields a value that is either equal, or before, or after the    *)
(* one it replaces in the order of operator<, never two of these.          *)
EditsOrdered ==
  [][~HasNaN(tree) /\ ~HasNaN(tree') =>
       LET before == Less(tree, tree')
           after == Less(tree', tree)
       IN /\ ~(before /\ after)
          /\ Equal(tree, tree') = (~before /\ ~after)]_tree

(* Writing: every writer writes the same text, layout aside, and that text *)
(* is read back as the value (jsoncpp.cpp 4416-4629, 4978-5123, 1263-1308).*)
WriteInv == RoundTrip /\ WritersAgree

(* Editing: what an edit does not name stays as it was (jsoncpp.cpp        *)
(* 3408-3516, 3590-3648, 4046-4063).                                       *)
EditsLocal == EditsLoseNothing /\ AssignIsLocal
=============================================================================
