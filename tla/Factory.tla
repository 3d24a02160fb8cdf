------------------------------ MODULE Factory ------------------------------
(***************************************************************************)
(* uscxml::Factory (src/uscxml/plugins/Factory.cpp 349-527): the plugin   *)
(* registry the interpreter creates its data model, invokers, I/O         *)
(* processors and custom executable content through.                       *)
(*                                                                         *)
(* The three plugin kinds (invoker, data model, I/O processor) have the   *)
(* same code over their own pair of maps, so a kind is a parameter: for   *)
(* each factory and kind, aliases is the _xAliases map (name -> canonical *)
(* name) and plugins the _x map (canonical name -> prototype).  Executable *)
(* content is kept by (localName, namespace).  A factory may have a       *)
(* parent (_parentFactory) that hasX and createX fall back to.            *)
(* hasX and createX change nothing, so they are operators over the state, *)
(* and the properties quantify over every query.                           *)
(***************************************************************************)
EXTENDS Naturals, Sequences, SequencesExt

CONSTANTS Factories,     \* the Factory objects
          Parent,        \* Parent[f]: f's _parentFactory, or NoParent
          NoParent,
          Kinds,         \* plugin kinds, e.g. "datamodel", "invoker"
          Plugins,       \* Plugins[k]: the prototypes of kind k
          Names,         \* Names[p]: p->getNames(), in order
          ExecContents,  \* executable-content prototypes: [localName, nameSpace]
          Types,         \* the names asked for in hasX / createX
          NameSpaces,    \* the namespaces asked for ("" included)
          DefaultNS,     \* "http://www.w3.org/2005/07/scxml"
          Throw,         \* createX threw (ERROR_EXECUTION_THROW)
          MaxRegs        \* registrations made (bound)

ASSUME /\ Parent \in [Factories -> Factories \cup {NoParent}]
       /\ Names \in [UNION {Plugins[k] : k \in Kinds} -> Seq(Types)]
       /\ MaxRegs \in Nat

VARIABLES aliases,            \* aliases[f][k]: _invokerAliases / _dataModelAliases / ...
          plugins,            \* plugins[f][k]: _invokers / _dataModels / _ioProcessors
          executableContent,  \* executableContent[f]: _executableContent
          regs                \* registrations so far

vars == <<aliases, plugins, executableContent, regs>>

TypeOK ==
    /\ \A f \in Factories, k \in Kinds :
          /\ DOMAIN aliases[f][k] \subseteq Types
          /\ \A n \in DOMAIN aliases[f][k] : aliases[f][k][n] \in DOMAIN plugins[f][k]
    /\ regs \in 0..MaxRegs

Init ==
    /\ aliases = [f \in Factories |-> [k \in Kinds |-> <<>>]]
    /\ plugins = [f \in Factories |-> [k \in Kinds |-> <<>>]]
    /\ executableContent = [f \in Factories |-> <<>>]
    /\ regs = 0

(***************************************************************************)
(* Lines 349-386: the first of the plugin's names is its canonical name;  *)
(* the prototype is stored under it (replacing one already there) and     *)
(* every name, the canonical one included, becomes an alias of it.  A     *)
(* plugin without names is not registered.                                 *)
(***************************************************************************)
registerX(f, k, p) ==
    LET names == Names[p]
    IN
    /\ regs < MaxRegs
    /\ regs' = regs + 1
    /\ \/ /\ names # <<>>
          /\ plugins' = [plugins EXCEPT ![f][k] = (names[1] :> p) @@ @]
          /\ aliases' = [aliases EXCEPT ![f][k] = [n \in ToSet(names) |-> names[1]] @@ @]
       \/ /\ names = <<>>
          /\ UNCHANGED <<aliases, plugins>>
    /\ UNCHANGED executableContent

(* Lines 388-392: stored under its (localName, namespace), as given. *)
registerExecutableContent(f, e) ==
    /\ regs < MaxRegs
    /\ regs' = regs + 1
    /\ executableContent' =
          [executableContent EXCEPT ![f] = (<<e.localName, e.nameSpace>> :> e) @@ @]
    /\ UNCHANGED <<aliases, plugins>>

Next ==
    \/ \E f \in Factories, k \in Kinds : \E p \in Plugins[k] : registerX(f, k, p)
    \/ \E f \in Factories, e \in ExecContents : registerExecutableContent(f, e)

Spec == Init /\ [][Next]_vars

-----------------------------------------------------------------------------
(* Lines 407-414 (and 438-445, 469-476): a local alias, else the parent. *)
RECURSIVE hasX(_, _, _)
hasX(f, k, type) ==
    \/ type \in DOMAIN aliases[f][k]
    \/ Parent[f] # NoParent /\ hasX(Parent[f], k, type)

(***************************************************************************)
(* Lines 416-435 (and 447-466, 478-497): the prototype of the alias's     *)
(* canonical name if both are known locally (create() gives a new         *)
(* instance of it), else the parent's answer, else an exception.          *)
(***************************************************************************)
RECURSIVE createX(_, _, _)
createX(f, k, type) ==
    IF type \in DOMAIN aliases[f][k] /\ aliases[f][k][type] \in DOMAIN plugins[f][k]
    THEN plugins[f][k][aliases[f][k][type]]
    ELSE IF Parent[f] # NoParent THEN createX(Parent[f], k, type)
    ELSE Throw

(* nameSpace.length() == 0 ? "http://www.w3.org/2005/07/scxml" : nameSpace *)
ActualNameSpace(nameSpace) == IF nameSpace = "" THEN DefaultNS ELSE nameSpace

(* hasExecutableContent looking up the namespace as given. *)
RECURSIVE hasExecutableContentNoDefault(_, _, _)
hasExecutableContentNoDefault(f, localName, nameSpace) ==
    \/ <<localName, nameSpace>> \in DOMAIN executableContent[f]
    \/ Parent[f] # NoParent /\ hasExecutableContentNoDefault(Parent[f], localName, nameSpace)

(* Lines 499-507: the local lookup uses the defaulted namespace; the      *)
(* parent is asked with the namespace as given.                            *)
RECURSIVE hasExecutableContent(_, _, _)
hasExecutableContent(f, localName, nameSpace) ==
    \/ <<localName, ActualNameSpace(nameSpace)>> \in DOMAIN executableContent[f]
    \/ Parent[f] # NoParent /\ hasExecutableContent(Parent[f], localName, nameSpace)

(* Lines 509-527: the same lookup, creating from the prototype found. *)
RECURSIVE createExecutableContent(_, _, _)
createExecutableContent(f, localName, nameSpace) ==
    IF <<localName, ActualNameSpace(nameSpace)>> \in DOMAIN executableContent[f]
    THEN executableContent[f][<<localName, ActualNameSpace(nameSpace)>>]
    ELSE IF Parent[f] # NoParent THEN createExecutableContent(Parent[f], localName, nameSpace)
    ELSE Throw

-----------------------------------------------------------------------------
(***************************************************************************)
(* Spec section 6: hasX never throws and tells whether createX succeeds. *)
(* The interpreter asks hasX before createX (e.g. for a custom element),  *)
(* so for every factory, kind, name and namespace, after any sequence of *)
(* registrations in a factory and its parent, hasX answers TRUE exactly  *)
(* when createX, walking the same chain, finds a prototype.               *)
(***************************************************************************)
HasAgreesWithCreate ==
    /\ \A f \in Factories, k \in Kinds, type \in Types :
          hasX(f, k, type) <=> createX(f, k, type) # Throw
    /\ \A f \in Factories, e \in ExecContents, ns \in NameSpaces :
          hasExecutableContent(f, e.localName, ns)
             <=> createExecutableContent(f, e.localName, ns) # Throw
=============================================================================
