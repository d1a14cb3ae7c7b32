---------------------------- MODULE MethodLookup ----------------------------
(***************************************************************************)
(* Sends without any cache (SPEC section 8): a send activates the nearest   *)
(* definition of its selector, in the method dictionaries as they are now.  *)
(***************************************************************************)
EXTENDS Naturals, Sequences

CONSTANTS
    Class,      \* class objects, registered or still to be
    NoClass,    \* nil in a superclass or staticClass slot
    Chain,      \* Chain[c]: c and its superclasses, nearest first
    Selector,
    Dnu,        \* #doesNotUnderstand:
    Method,     \* CompiledMethod objects
    NoMethod,
    Loaded,     \* the methods that are in the image when it is loaded
    Sealed      \* <<class, selector>> pairs whose install is ignored

ASSUME LookupAssumption ==
    /\ NoClass \notin Class /\ NoMethod \notin Method
    /\ Chain \in [Class -> Seq(Class)]
    /\ \A c \in Class : Chain[c] # <<>> /\ Chain[c][1] = c
    /\ Dnu \in Selector
    /\ Loaded \subseteq Method
    /\ Sealed \subseteq Class \X Selector

VARIABLES
    classes,    \* the registered classes: what the class table holds
    dict,       \* the method dictionaries
    activated   \* the last send: receiver's class, where its lookup starts,
                \* selector and the method it activated

lookupVars == <<classes, dict, activated>>

Dictionary == [Class -> [Selector -> Method \cup {NoMethod}]]

\* A class nobody has asked yet, and a method that no send has activated.
NoSend == [class |-> NoClass, from |-> NoClass, selector |-> Dnu, method |-> NoMethod]

Activation ==
    [class : Class, from : Class \cup {NoClass}, selector : Selector,
     method : Method \cup {NoMethod}] \cup {NoSend}

\* Positions in the superclass chain of k whose class defines sel, in the
\* dictionaries d
Definers(d, k, sel) == {i \in DOMAIN Chain[k] : d[Chain[k][i]][sel] # NoMethod}

\* lookup_method
Lookup(d, k, sel) ==
    IF Definers(d, k, sel) = {} THEN NoMethod
    ELSE LET nearest == CHOOSE i \in Definers(d, k, sel) :
                            \A j \in Definers(d, k, sel) : i <= j
         IN  d[Chain[k][nearest]][sel]

\* The superclass slot of k
Superclass(k) == IF Len(Chain[k]) = 1 THEN NoClass ELSE Chain[k][2]

\* The lookup of a send starts at the receiver's class, that of a super send
\* above the class of its method; no class is above a root.
LookupFrom(d, k, sel) == IF k = NoClass THEN NoMethod ELSE Lookup(d, k, sel)

\* What a send to an instance of c ends up activating: doesNotUnderstand: when
\* nothing is found, and NoMethod, a fatal error, when that is missing as well.
Meaning(d, c, k, sel) ==
    IF LookupFrom(d, k, sel) # NoMethod THEN LookupFrom(d, k, sel)
    ELSE Lookup(d, c, Dnu)

LookupTypeOK ==
    /\ classes \subseteq Class
    /\ dict \in Dictionary
    /\ activated \in Activation

LookupInit ==
    /\ classes \in SUBSET Class
    /\ \A c \in classes : \A i \in DOMAIN Chain[c] : Chain[c][i] \in classes
    /\ dict \in [Class -> [Selector -> Loaded \cup {NoMethod}]]
    /\ \A c \in Class \ classes, sel \in Selector : dict[c][sel] = NoMethod
    /\ activated = NoSend

SendMeans(c, k, sel) ==
    /\ activated' = [class |-> c, from |-> k, selector |-> sel, method |-> Meaning(dict, c, k, sel)]
    /\ UNCHANGED <<classes, dict>>

\* install_method, as PRIM_METHOD_INSTALL guards it
PutMethod(c, sel, m) ==
    /\ <<c, sel>> \notin Sealed
    /\ dict' = [dict EXCEPT ![c][sel] = m]
    /\ UNCHANGED <<classes, activated>>

\* register_class
AddClass(c) ==
    /\ c \notin classes
    /\ \A i \in DOMAIN Chain[c] : i > 1 => Chain[c][i] \in classes
    /\ classes' = classes \cup {c}
    /\ UNCHANGED <<dict, activated>>

LookupNext ==
    \/ \E c \in classes, k \in Class \cup {NoClass}, sel \in Selector : SendMeans(c, k, sel)
    \/ \E c \in classes, sel \in Selector, m \in Method : PutMethod(c, sel, m)
    \/ \E c \in Class : AddClass(c)

LookupSpec == LookupInit /\ [][LookupNext]_lookupVars
=============================================================================
