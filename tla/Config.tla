------------------------------- MODULE Config -------------------------------
(***************************************************************************)
(* The configuration registry of src/include/config.h and                  *)
(* src/src/config.cpp: Config::Lookup over the global name -> ConfigVar   *)
(* map, and one ConfigVar<T> with its value m_val and listeners m_cbs.     *)
(*                                                                         *)
(* ConfigVar::setValue calls the listeners under the read lock, drops it,  *)
(* and only then takes the write lock to store the value: a setValue is    *)
(* three steps, and other setValue or addListener calls may run between.  *)
(* A listener is modelled as the usual client of on_change_cb: it keeps a  *)
(* copy of the value, taken with getValue() when it registers and replaced *)
(* by new_value on each call.  m_mutex is an RWMutex (module RWMutex).     *)
(*                                                                         *)
(* Config::LoadFromYaml walks a YAML document with ListAllMember, looks    *)
(* each dotted name up with LookUpBase and hands the node to fromString,   *)
(* which converts it and calls setValue: one load is a sequence of         *)
(* setValue calls, each of them the three steps above.                    *)
(***************************************************************************)
EXTENDS Integers, Sequences, FiniteSets
LOCAL SE == INSTANCE SequencesExt

CONSTANTS
    Threads,        \* threads calling into the registry
    Values,         \* values of the ConfigVar
    Default,        \* its default_value
    MaxListeners,   \* bound on addListener calls (s_fun_id)
    Names,          \* names passed to Lookup, as sequences of characters
    Types,          \* template arguments T
    VarName,        \* the name of the modelled ConfigVar, registered at start
    VarType,
    Documents,      \* YAML documents given to LoadFromYaml (see Node)
    Lowercase       \* ::tolower on the characters that have a lower case

ASSUME Default \in Values /\ VarName \in Names /\ VarType \in Types

VARIABLES
    datas,       \* Config::GetDatas(): the type registered under each name
    lookupRes,   \* what the thread's last Lookup did
    lookupName,  \* and with which name
    val,         \* ConfigVar::m_val
    cbs,         \* the keys of ConfigVar::m_cbs
    nextId,      \* s_fun_id
    mirror,      \* each listener's copy of the value
    readers,     \* threads holding the ConfigVar's read lock
    writer,      \* the thread holding its write lock
    pc,          \* "idle", "notify" (listeners under the read lock), "write"
    arg,         \* the value setValue is storing
    todo,        \* listeners the thread has still to call
    loading      \* the values LoadFromYaml has still to pass to setValue

Listeners == 1..MaxListeners
None == "none"

vars == <<datas, lookupRes, lookupName, val, cbs, nextId, mirror, readers,
          writer, pc, arg, todo, loading>>

RW == INSTANCE RWMutex WITH Owners <- Threads, NoOwner <- None

TypeOK ==
    /\ datas \in [Names -> Types \cup {None}]
    /\ lookupRes \in [Threads -> {None, "var", "null", "throw"}]
    /\ lookupName \in [Threads -> Names]
    /\ val \in Values /\ cbs \subseteq Listeners /\ nextId \in 0..MaxListeners
    /\ mirror \in [Listeners -> Values] /\ RW!TypeOK
    /\ pc \in [Threads -> {"idle", "notify", "write"}]
    /\ arg \in [Threads -> Values] /\ todo \in [Threads -> SUBSET Listeners]
    /\ loading \in [Threads -> Seq(Values)]

Init ==
    /\ datas = [n \in Names |-> IF n = VarName THEN VarType ELSE None]
    /\ lookupRes = [t \in Threads |-> None]
    /\ lookupName = [t \in Threads |-> VarName]
    /\ val = Default /\ cbs = {} /\ nextId = 0
    /\ mirror = [l \in Listeners |-> Default]
    /\ RW!Init
    /\ pc = [t \in Threads |-> "idle"]
    /\ arg = [t \in Threads |-> Default]
    /\ todo = [t \in Threads |-> {}]
    /\ loading = [t \in Threads |-> <<>>]

(* A thread that is not inside a setValue or a LoadFromYaml.              *)
Free(t) == pc[t] = "idle" /\ loading[t] = <<>>

-----------------------------------------------------------------------------
(* The characters of the string Lookup passes to find_first_not_of.        *)
CodeNameChars ==
    {"a", "b", "c", "d", "e", "f", "g", "h", "i", "k", "j", "l", "m", "n",
     "o", "p", "q", "r", "s", "t", "u", "v", "w", "x", "y", "z", ".", "_",
     "0", "1", "2", "3", "4", "5", "6", "7", "8"}

ValidName(n) == \A i \in 1..Len(n) : n[i] \in CodeNameChars

(* Config::Lookup(name, default_value): under the global write lock,       *)
(* return the registered var when its type matches, nullptr when not,     *)
(* throw on an invalid name, else register a new var.                     *)
Lookup(t) ==
    /\ Free(t)
    /\ \E n \in Names, ty \in Types :
         /\ lookupName' = [lookupName EXCEPT ![t] = n]
         /\ CASE datas[n] = ty   -> lookupRes' = [lookupRes EXCEPT ![t] = "var"]
                                    /\ UNCHANGED datas
              [] datas[n] # None -> lookupRes' = [lookupRes EXCEPT ![t] = "null"]
                                    /\ UNCHANGED datas
              [] ~ValidName(n)   -> lookupRes' = [lookupRes EXCEPT ![t] = "throw"]
                                    /\ UNCHANGED datas
              [] OTHER           -> lookupRes' = [lookupRes EXCEPT ![t] = "var"]
                                    /\ datas' = [datas EXCEPT ![n] = ty]
    /\ UNCHANGED <<val, cbs, nextId, mirror, readers, writer, pc, arg, todo, loading>>

(* The read-locked start of ConfigVar::setValue(v) when m_val # v: take    *)
(* the read lock and start calling m_cbs.                                 *)
BeginSet(t, v) ==
    /\ RW!ReadLock(t)
    /\ arg' = [arg EXCEPT ![t] = v]
    /\ todo' = [todo EXCEPT ![t] = cbs]
    /\ pc' = [pc EXCEPT ![t] = "notify"]

(* setValue(v) called directly: under the read lock, return when m_val =  *)
(* v (a step that changes nothing, left out), else start calling m_cbs.   *)
SetValue(t) ==
    /\ Free(t)
    /\ \E v \in Values \ {val} : BeginSet(t, v)
    /\ UNCHANGED <<datas, lookupRes, lookupName, val, cbs, nextId, mirror, loading>>

(* i.second(m_val, v) for the next key of m_cbs, in key order.            *)
Notify(t) ==
    /\ pc[t] = "notify" /\ todo[t] # {}
    /\ LET l == CHOOSE k \in todo[t] : \A j \in todo[t] : k <= j
       IN /\ mirror' = [mirror EXCEPT ![l] = arg[t]]
          /\ todo' = [todo EXCEPT ![t] = @ \ {l}]
    /\ UNCHANGED <<datas, lookupRes, lookupName, val, cbs, nextId, readers,
                   writer, pc, arg, loading>>

(* End of the read-locked block: ~ReadScopedLockImpl.                     *)
Unlock(t) ==
    /\ pc[t] = "notify" /\ todo[t] = {}
    /\ RW!ScopedUnlock(t)
    /\ pc' = [pc EXCEPT ![t] = "write"]
    /\ UNCHANGED <<datas, lookupRes, lookupName, val, cbs, nextId, mirror, arg,
                   todo, loading>>

(* WriteLock, then m_val = v.                                             *)
Write(t) ==
    /\ pc[t] = "write" /\ RW!WriteSection
    /\ val' = arg[t]
    /\ pc' = [pc EXCEPT ![t] = "idle"]
    /\ UNCHANGED <<datas, lookupRes, lookupName, cbs, nextId, mirror, readers,
                   writer, arg, todo, loading>>

(* addListener(cb) under the write lock: m_cbs[++s_fun_id] = cb; the       *)
(* registering client then reads getValue() into its copy.                *)
AddListener(t) ==
    /\ Free(t) /\ RW!WriteSection /\ nextId < MaxListeners
    /\ nextId' = nextId + 1
    /\ cbs' = cbs \cup {nextId + 1}
    /\ mirror' = [mirror EXCEPT ![nextId + 1] = val]
    /\ UNCHANGED <<datas, lookupRes, lookupName, val, readers, writer, pc, arg,
                   todo, loading>>

(* delListener(key) under the write lock: m_cbs.erase(key).  Erasing a    *)
(* key that is not there changes nothing and is left out.                 *)
DelListener(t) ==
    /\ Free(t) /\ RW!WriteSection
    /\ \E k \in cbs : cbs' = cbs \ {k}
    /\ UNCHANGED <<datas, lookupRes, lookupName, val, nextId, mirror, readers,
                   writer, pc, arg, todo, loading>>

(* clearListener() under the write lock.                                  *)
ClearListener(t) ==
    /\ Free(t) /\ RW!WriteSection /\ cbs # {}
    /\ cbs' = {}
    /\ UNCHANGED <<datas, lookupRes, lookupName, val, nextId, mirror, readers,
                   writer, pc, arg, todo, loading>>

-----------------------------------------------------------------------------
(* A YAML node: a scalar holding a value, or a map whose items are        *)
(* [key |-> name, node |-> node] in document order.                       *)

(* ListAllMember's prefix for a child: the key itself under the root,     *)
(* else prefix + "." + key.                                               *)
Child(prefix, key) == IF prefix = <<>> THEN key ELSE prefix \o <<".">> \o key

(* ListAllMember(prefix, node, output): a prefix with a character outside *)
(* the valid set is logged and dropped with everything under it; else     *)
(* (prefix, node) is appended, then each child of a map in order.         *)
RECURSIVE ListAllMember(_, _)
ListAllMember(prefix, node) ==
    IF ~ValidName(prefix) THEN <<>>
    ELSE << <<prefix, node>> >> \o
         IF node.kind # "map" THEN <<>>
         ELSE SE!FlattenSeq([i \in DOMAIN node.items |->
                 ListAllMember(Child(prefix, node.items[i].key), node.items[i].node)])

(* std::transform(key, ::tolower).                                        *)
Lower(key) == [i \in DOMAIN key |->
                 IF key[i] \in DOMAIN Lowercase THEN Lowercase[key[i]] ELSE key[i]]

(* Config::LookUpBase(name) under the global read lock: the registered    *)
(* var is this ConfigVar exactly when the name is VarName.                *)
LookUpBase(key) == key = VarName

(* ConfigVar::fromString: LexicalCast<std::string, T> of the node's text. *)
(* A scalar converts to its value; a map's dump does not convert to the   *)
(* scalar T of this var, and the exception is caught and logged.          *)
FromStr(node) == IF node.kind = "scalar" THEN <<node.val>> ELSE <<>>

(* The values one LoadFromYaml(root) passes to this var's setValue, in    *)
(* the order of all_nodes: entries with an empty key are skipped.         *)
LoadValues(root) ==
    LET nodes == ListAllMember(<<>>, root) IN SE!FlattenSeq([i \in DOMAIN nodes |->
          IF nodes[i][1] # <<>> /\ LookUpBase(Lower(nodes[i][1]))
            THEN FromStr(nodes[i][2]) ELSE <<>>])

(* Config::LoadFromYaml(root) called with one of the documents.           *)
LoadFromYaml(t) ==
    /\ Free(t)
    /\ \E root \in Documents :
         /\ LoadValues(root) # <<>>
         /\ loading' = [loading EXCEPT ![t] = LoadValues(root)]
    /\ UNCHANGED <<datas, lookupRes, lookupName, val, cbs, nextId, mirror,
                   readers, writer, pc, arg, todo>>

(* The next fromString's setValue(v) of a load: when m_val = v it returns *)
(* under the read lock with nothing done.                                 *)
LoadNext(t) ==
    /\ pc[t] = "idle" /\ loading[t] # <<>>
    /\ loading' = [loading EXCEPT ![t] = Tail(@)]
    /\ LET v == Head(loading[t]) IN
       IF v = val
         THEN /\ RW!ReadSection
              /\ UNCHANGED <<readers, writer, pc, arg, todo>>
         ELSE BeginSet(t, v)
    /\ UNCHANGED <<datas, lookupRes, lookupName, val, cbs, nextId, mirror>>

Next ==
    \E t \in Threads :
        \/ Lookup(t) \/ SetValue(t) \/ Notify(t) \/ Unlock(t) \/ Write(t)
        \/ AddListener(t) \/ DelListener(t) \/ ClearListener(t)
        \/ LoadFromYaml(t) \/ LoadNext(t)

Spec == Init /\ [][Next]_vars

-----------------------------------------------------------------------------
(* When no setValue is in progress, every registered listener's copy of   *)
(* the value equals m_val: setValue tells each listener about the value    *)
(* it stores, and a listener added with addListener misses no change.     *)
ListenersAgree ==
    (\A t \in Threads : pc[t] = "idle") => \A l \in cbs : mirror[l] = val
====
