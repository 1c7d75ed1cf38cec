--------------------------- MODULE FolderMoveProofs ---------------------------
(***************************************************************************)
(* When one move is handled at a time, the four statements of move_folder  *)
(* implement the atomic move of FolderForest, for any number of folders    *)
(* and whatever the other requests do between the statements.              *)
(***************************************************************************)
EXTENDS FolderMove, TLAPS

(* There is one slot for move requests. *)
OneMove == \A q \in Request, r \in Request : q = r

-----------------------------------------------------------------------------
(* Tree(d) is the least set that holds d and the children of its members.  *)

LEMMA TreeFacts ==
    ASSUME NEW d \in folders
    PROVE  /\ d \in Tree(d)
           /\ Tree(d) \subseteq folders
           /\ \A x \in folders : parent[x] \in Tree(d) => x \in Tree(d)
  BY DEF Tree

LEMMA DoomedFacts ==
    ASSUME trashed \subseteq folders
    PROVE  /\ Doomed \subseteq folders
           /\ \A x \in folders : parent[x] \in Doomed => x \in Doomed
  <1>1. ASSUME NEW d \in folders
        PROVE  Tree(d) \subseteq folders /\ \A x \in folders : parent[x] \in Tree(d) => x \in Tree(d)
    BY TreeFacts
  <1> QED BY <1>1 DEF Doomed

-----------------------------------------------------------------------------
(* The inductive invariant: between the cycle check and the UPDATE, the    *)
(* target stays outside the tree that moves.                               *)

ParentsExist == \A d \in folders : parent[d] \in folders \cup {NULL}

Pending(r) == pc[r] = "update" /\ src[r] \in folders /\ dst[r] \in folders

CheckStillHolds == \A r \in Request : Pending(r) => dst[r] \notin Tree(src[r])

IInv == TypeOK /\ ParentsExist /\ Abstract!Forest /\ CheckStillHolds

LEMMA InitIInv == Init => IInv
  BY DEF Init, IInv, TypeOK, Statement, ParentsExist, Abstract!Forest, CheckStillHolds, Pending

(* Steps of a request other than its UPDATE. *)
LEMMA ServeIInv ==
    ASSUME IInv, NEW r \in Request, CheckAccess(r) \/ CheckTarget(r) \/ CheckCycle(r)
    PROVE  IInv'
  <1>1. UNCHANGED <<folders, parent, trashed>>
    BY DEF CheckAccess, CheckTarget, CheckCycle
  <1>2. /\ pc' \in [Request -> Statement]
        /\ src' \in [Request -> Folder \cup {NULL}]
        /\ dst' \in [Request -> Folder \cup {NULL}]
    BY DEF CheckAccess, CheckTarget, CheckCycle, GoTo, IInv, TypeOK, Statement
  <1>3. CheckStillHolds'
    <2> SUFFICES ASSUME NEW q \in Request, Pending(q)'
                 PROVE  dst'[q] \notin Tree(src[q])'
      BY DEF CheckStillHolds
    <2>1. CASE q # r
      BY <1>1, <2>1
      DEF CheckAccess, CheckTarget, CheckCycle, GoTo, IInv, TypeOK, CheckStillHolds, Pending, Tree
    <2>2. CASE q = r
      <3>1. src'[r] = src[r] /\ dst'[r] = dst[r] /\ pc'[r] = "update"
        BY <2>2 DEF CheckAccess, CheckTarget, CheckCycle, GoTo, IInv, TypeOK, Pending
      <3>2. CASE CheckAccess(r)
        BY <1>1, <2>2, <3>1, <3>2, NullAssumption DEF CheckAccess, GoTo, IInv, TypeOK, Pending
      <3>3. CASE CheckTarget(r)
        BY <3>1, <3>3 DEF CheckTarget, GoTo, IInv, TypeOK
      <3>4. CASE CheckCycle(r)
        <4>1. ~WouldCreateCycle(r)
          BY <3>1, <3>4 DEF CheckCycle, GoTo, IInv, TypeOK
        <4>2. Tree(src[r])' = Tree(src[r])
          BY <1>1, <3>1 DEF Tree
        <4> QED BY <1>1, <2>2, <3>1, <4>1, <4>2 DEF WouldCreateCycle, Pending
      <3> QED BY <3>2, <3>3, <3>4
    <2> QED BY <2>1, <2>2
  <1> QED BY <1>1, <1>2, <1>3 DEF IInv, TypeOK, ParentsExist, Abstract!Forest

(* A set that holds all its own parents after the UPDATE holds the target; *)
(* outside the tree that moved it held all its own parents before.         *)
LEMMA UpdateForest ==
    ASSUME IInv, NEW r \in Request, Update(r)
    PROVE  Abstract!Forest'
  <1> DEFINE d == src[r]
             p == dst[r]
  <1>1. folders' = folders
    BY DEF Update
  <1>2. CASE ~(d \in folders /\ p \in folders \cup {NULL})
    BY <1>1, <1>2 DEF Update, IInv, Abstract!Forest
  <1>3. CASE d \in folders /\ p \in folders \cup {NULL}
    <2>1. p \notin Tree(d)
      <3>1. CASE p = NULL
        BY <1>3, <3>1, TreeFacts, NullAssumption DEF IInv, TypeOK
      <3>2. CASE p \in folders
        BY <1>3, <3>2 DEF Update, IInv, CheckStillHolds, Pending
      <3> QED BY <1>3, <3>1, <3>2
    <2>2. /\ d \in Tree(d)
          /\ \A x \in folders : parent[x] \in Tree(d) => x \in Tree(d)
      BY <1>3, TreeFacts
    <2>3. parent'[d] = p /\ \A e \in folders \ {d} : parent'[e] = parent[e]
      BY <1>3 DEF Update, IInv, TypeOK
    <2>4. SUFFICES ASSUME NEW S \in SUBSET folders, S # {}, \A e \in S : parent'[e] \in S
                   PROVE  FALSE
      BY <1>1 DEF Abstract!Forest
    <2>5. CASE d \notin S
      <3>1. \A e \in S : parent[e] \in S
        BY <2>3, <2>4, <2>5
      <3> QED BY <2>4, <3>1 DEF IInv, Abstract!Forest
    <2>6. CASE d \in S
      <3> DEFINE R == S \ Tree(d)
      <3>1. R \in SUBSET folders /\ R # {}
        BY <2>1, <2>3, <2>4, <2>6
      <3>2. ASSUME NEW e \in R PROVE parent[e] \in R
        BY <2>2, <2>3, <2>4
      <3> QED BY <3>1, <3>2 DEF IInv, Abstract!Forest
    <2> QED BY <2>5, <2>6
  <1> QED BY <1>2, <1>3

LEMMA UpdateIInv ==
    ASSUME OneMove, IInv, NEW r \in Request, Update(r)
    PROVE  IInv'
  <1>1. Abstract!Forest'
    BY UpdateForest
  <1>2. TypeOK'
    BY DEF Update, GoTo, IInv, TypeOK, Statement
  <1>3. ParentsExist'
    BY DEF Update, IInv, TypeOK, ParentsExist
  <1>4. CheckStillHolds'
    BY DEF OneMove, Update, GoTo, IInv, TypeOK, CheckStillHolds, Pending
  <1> QED BY <1>1, <1>2, <1>3, <1>4 DEF IInv

LEMMA SubmitIInv ==
    ASSUME IInv, NEW r \in Request, NEW d \in folders, NEW p \in folders \cup {NULL},
           Submit(r, d, p)
    PROVE  IInv'
  <1>1. UNCHANGED <<folders, parent, trashed>>
    BY DEF Submit
  <1>2. TypeOK'
    BY DEF Submit, IInv, TypeOK, Statement
  <1>3. CheckStillHolds'
    BY <1>1 DEF Submit, IInv, TypeOK, CheckStillHolds, Pending, Tree
  <1> QED BY <1>1, <1>2, <1>3 DEF IInv, ParentsExist, Abstract!Forest

-----------------------------------------------------------------------------
(* The other requests.                                                     *)

(* A new folder has no children, so it joins the tree of its parent alone; *)
(* it is not the target of a pending move, whose id existed before it.     *)
LEMMA CreateFolderIInv ==
    ASSUME IInv, NEW d \in Folder, NEW p \in folders \cup {NULL}, CreateFolder(d, p)
    PROVE  IInv'
  <1>1. TypeOK' /\ ParentsExist'
    BY NullAssumption DEF CreateFolder, reqVars, IInv, TypeOK, ParentsExist
  <1>2. \A e \in folders : parent[e] # d /\ parent'[e] = parent[e]
    BY NullAssumption DEF CreateFolder, IInv, TypeOK, ParentsExist
  <1>3. Abstract!Forest'
    <2>1. SUFFICES ASSUME NEW S \in SUBSET folders', S # {}, \A e \in S : parent'[e] \in S
                   PROVE  FALSE
      BY DEF Abstract!Forest
    <2>2. S \ {d} \in SUBSET folders /\ \A e \in S \ {d} : parent[e] \in S \ {d}
      BY <1>2, <2>1 DEF CreateFolder
    <2>3. S \ {d} # {}
      <3>1. parent'[d] = p /\ p # d
        BY NullAssumption DEF CreateFolder, IInv, TypeOK
      <3> QED BY <2>1, <3>1
    <2> QED BY <2>2, <2>3 DEF IInv, Abstract!Forest
  <1>4. ASSUME NEW r \in Request, Pending(r)'
        PROVE  (dst[r] \notin Tree(src[r]))'
    <2> DEFINE a == src[r]
               S == Tree(a) \cup {d}
    <2>1. src' = src /\ dst' = dst /\ pc' = pc /\ a # d /\ dst[r] # d
      BY DEF CreateFolder, reqVars
    <2>2. a \in folders /\ dst[r] \in folders /\ dst[r] \notin Tree(a)
      BY <1>4, <2>1 DEF CreateFolder, Pending, IInv, CheckStillHolds
    <2>3. /\ a \in Tree(a) /\ Tree(a) \subseteq folders
          /\ \A x \in folders : parent[x] \in Tree(a) => x \in Tree(a)
      BY <2>2, TreeFacts
    <2>4. S \in SUBSET folders' /\ a \in S
      BY <2>3 DEF CreateFolder
    <2>5. \A x \in folders' : parent'[x] \in S => x \in S
      BY <1>2, <2>3 DEF CreateFolder
    <2>6. dst[r] \notin S
      BY <2>1, <2>2
    <2> HIDE DEF S
    <2> QED BY <2>1, <2>4, <2>5, <2>6 DEF Tree
  <1> QED BY <1>1, <1>3, <1>4 DEF IInv, CheckStillHolds

LEMMA TrashIInv ==
    ASSUME IInv, NEW d \in Folder, DeleteFolder(d) \/ RestoreFolder(d)
    PROVE  IInv'
  <1>1. UNCHANGED <<folders, parent, reqVars>>
    BY DEF DeleteFolder, RestoreFolder
  <1>2. trashed' \subseteq folders
    BY TreeFacts DEF DeleteFolder, RestoreFolder, IInv, TypeOK
  <1>3. CheckStillHolds'
    BY <1>1 DEF reqVars, IInv, CheckStillHolds, Pending, Tree
  <1> QED BY <1>1, <1>2, <1>3 DEF reqVars, IInv, TypeOK, ParentsExist, Abstract!Forest

(* What is removed is closed under children.  The tree that moves, if it   *)
(* is still there, has only lost folders.                                  *)
LEMMA EmptyTrashIInv ==
    ASSUME IInv, EmptyTrash
    PROVE  IInv'
  <1>1. /\ Doomed \subseteq folders
        /\ \A x \in folders : parent[x] \in Doomed => x \in Doomed
    BY DoomedFacts DEF IInv, TypeOK
  <1>2. \A e \in folders' : e \in folders /\ e \notin Doomed /\ parent'[e] = parent[e]
    BY DEF EmptyTrash, IInv, TypeOK
  <1>3. TypeOK'
    BY DEF EmptyTrash, reqVars, IInv, TypeOK
  <1>4. ParentsExist'
    BY <1>1, <1>2 DEF EmptyTrash, IInv, ParentsExist
  <1>5. Abstract!Forest'
    BY <1>2 DEF EmptyTrash, IInv, Abstract!Forest
  <1>6. ASSUME NEW r \in Request, Pending(r)'
        PROVE  (dst[r] \notin Tree(src[r]))'
    <2> DEFINE a == src[r]
               S == Tree(a) \cap folders'
    <2>1. src' = src /\ dst' = dst /\ pc' = pc
      BY DEF EmptyTrash, reqVars
    <2>2. a \in folders /\ a \in folders' /\ dst[r] \notin Tree(a)
      BY <1>2, <1>6, <2>1 DEF Pending, IInv, CheckStillHolds
    <2>3. /\ a \in Tree(a)
          /\ \A x \in folders : parent[x] \in Tree(a) => x \in Tree(a)
      BY <2>2, TreeFacts
    <2>4. S \in SUBSET folders' /\ a \in S /\ dst[r] \notin S
      BY <2>2, <2>3
    <2>5. \A x \in folders' : parent'[x] \in S => x \in S
      BY <1>2, <2>3
    <2> HIDE DEF S
    <2> QED BY <2>1, <2>4, <2>5 DEF Tree
  <1> QED BY <1>3, <1>4, <1>5, <1>6 DEF IInv, CheckStillHolds

LEMMA NextIInv == OneMove /\ IInv /\ [Next]_vars => IInv'
  <1> SUFFICES ASSUME OneMove, IInv, [Next]_vars PROVE IInv'
    OBVIOUS
  <1>1. ASSUME NEW r \in Request, Serve(r) PROVE IInv'
    BY <1>1, ServeIInv, UpdateIInv DEF Serve
  <1>2. ASSUME NEW r \in Request, NEW d \in folders, NEW p \in folders \cup {NULL},
               Submit(r, d, p)
        PROVE  IInv'
    BY <1>2, SubmitIInv
  <1>3. ASSUME NEW d \in Folder, NEW p \in folders \cup {NULL}, CreateFolder(d, p)
        PROVE  IInv'
    BY <1>3, CreateFolderIInv
  <1>4. ASSUME NEW d \in Folder, DeleteFolder(d) \/ RestoreFolder(d) PROVE IInv'
    BY <1>4, TrashIInv
  <1>5. CASE EmptyTrash
    BY <1>5, EmptyTrashIInv
  <1>6. CASE UNCHANGED vars
    BY <1>6 DEF vars, IInv, TypeOK, ParentsExist, Abstract!Forest, CheckStillHolds, Pending, Tree
  <1> QED BY <1>1, <1>2, <1>3, <1>4, <1>5, <1>6 DEF Next

-----------------------------------------------------------------------------
(* Theorems.                                                               *)

LEMMA InvariantIInv ==
    ASSUME OneMove
    PROVE  Spec => []IInv
  <1>1. IInv /\ [Next]_vars => IInv'
    BY OneMove, NextIInv
  <1> QED BY <1>1, InitIInv, PTL DEF Spec

(* With one move at a time, the tables keep their types, for any number of *)
(* folders.                                                                *)
THEOREM SerialMovesTypeCorrect ==
    ASSUME OneMove
    PROVE  Spec => []TypeOK
  <1>1. IInv => TypeOK
    BY DEF IInv
  <1> QED BY <1>1, InvariantIInv, PTL

(* With one move at a time, the folders never form a cycle: the check of   *)
(* move_folder is enough although nothing locks the tree until the UPDATE. *)
THEOREM SerialMovesKeepForest ==
    ASSUME OneMove
    PROVE  Spec => []NoCycle
  <1>1. IInv => NoCycle
    BY DEF IInv, NoCycle
  <1> QED BY <1>1, InvariantIInv, PTL

(* With one move at a time, every step of every request, the statements of *)
(* move_folder included, is a step of FolderForest or leaves the tree of   *)
(* folders as it is.                                                       *)
THEOREM SerialMovesImplementForest ==
    ASSUME OneMove
    PROVE  Spec => ImplementsForest
  <1> USE DEF Abstract!ForestVars
  <1>1. Init => Abstract!Init
    BY DEF Init, Abstract!Init
  <1>2. IInv /\ [Next]_vars => [Abstract!Next]_(Abstract!ForestVars)
    <2> SUFFICES ASSUME IInv, [Next]_vars PROVE [Abstract!Next]_(Abstract!ForestVars)
      OBVIOUS
    <2>1. ASSUME NEW r \in Request, Update(r)
          PROVE  [Abstract!Next]_(Abstract!ForestVars)
      <3>1. Abstract!Forest'
        BY <2>1, UpdateForest
      <3>2. CASE src[r] \in folders /\ dst[r] \in folders \cup {NULL}
        <4>1. Abstract!Move(src[r], dst[r])
          BY <2>1, <3>1, <3>2 DEF Update, Abstract!Move
        <4> QED BY <3>2, <4>1 DEF Abstract!Next, IInv, TypeOK
      <3>3. CASE ~(src[r] \in folders /\ dst[r] \in folders \cup {NULL})
        BY <2>1, <3>3 DEF Update
      <3> QED BY <3>2, <3>3
    <2>2. ASSUME NEW r \in Request, CheckAccess(r) \/ CheckTarget(r) \/ CheckCycle(r)
          PROVE  UNCHANGED <<folders, parent>>
      BY <2>2 DEF CheckAccess, CheckTarget, CheckCycle
    <2>3. ASSUME NEW r \in Request, NEW d \in folders, NEW p \in folders \cup {NULL},
                 Submit(r, d, p)
          PROVE  UNCHANGED <<folders, parent>>
      BY <2>3 DEF Submit
    <2>4. ASSUME NEW d \in Folder, NEW p \in folders \cup {NULL}, CreateFolder(d, p)
          PROVE  Abstract!Next
      BY <2>4 DEF CreateFolder, Abstract!Next, Abstract!Insert
    <2>5. ASSUME NEW d \in Folder, DeleteFolder(d) \/ RestoreFolder(d)
          PROVE  UNCHANGED <<folders, parent>>
      BY <2>5 DEF DeleteFolder, RestoreFolder
    <2>6. CASE EmptyTrash
      <3>1. /\ Doomed \subseteq folders
            /\ \A x \in folders : parent[x] \in Doomed => x \in Doomed
        BY DoomedFacts DEF IInv, TypeOK
      <3>2. Abstract!Remove(Doomed)
        BY <2>6, <3>1 DEF EmptyTrash, Abstract!Remove
      <3> QED BY <3>1, <3>2 DEF Abstract!Next
    <2>7. CASE UNCHANGED vars
      BY <2>7 DEF vars
    <2> QED BY <2>1, <2>2, <2>3, <2>4, <2>5, <2>6, <2>7 DEF Next, Serve
  <1> QED BY <1>1, <1>2, InvariantIInv, PTL DEF Spec, ImplementsForest, Abstract!Spec
==============================================================================
