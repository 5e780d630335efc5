----------------------------- MODULE Configurator -----------------------------
(***************************************************************************)
(* The routers of a daemon and the file they are saved in.  An operator    *)
(* sets the routers and saves them; the daemon stops, or is killed in the  *)
(* middle of a save; interfaces disappear, and come back with another      *)
(* index; a start restores what it can read.  The file a daemon finds at   *)
(* its first start may be one of an earlier release.                       *)
(***************************************************************************)
EXTENDS ConfigurationFormat

CONSTANTS
  Interfaces, \* the names of the host's interfaces, in the order of their indexes
  Removable,  \* the interfaces that may disappear
  Routers,    \* the routers as an operator may set them, with their interface's name
  Cuts,       \* bound: the numbers of fields after which a file may be cut short
  MaxIndex,   \* bound: interface indexes that the kernel gives out
  OldFiles,   \* files of earlier releases, as records [version, routers]
  VlanValues  \* what an uninitialised VLAN id may hold

Names == {Interfaces[i] : i \in DOMAIN Interfaces}
Garbage == "garbage"

Intervals == 1..4095

\* Routers with their interface's name, or what is written in its place.
RouterRecords ==
  [interface : Names \cup {Garbage}, vrid : Vrids, family : Families, vlanId : Int,
   priority : Priorities, interval : Intervals, accept : BOOLEAN, preempt : BOOLEAN,
   enabled : BOOLEAN, primary : Addresses \cup {AutoPrimary}, master : DOMAIN Size,
   backup : DOMAIN Size, subnets : SUBSET [address : Addresses, cidr : Nat]]

IsRouter(r) == r \in RouterRecords /\ IsFiniteSet(r.subnets)

ASSUME ConfiguratorAssumption ==
  /\ MaxIndex \in Nat /\ Len(Interfaces) <= MaxIndex
  /\ Interfaces \in Seq(Names)
  /\ \A i, j \in DOMAIN Interfaces : Interfaces[i] = Interfaces[j] => i = j
  /\ \A name \in Names \cup {Garbage} : name \in DOMAIN Size /\ Size[name] <= LongestString
  /\ \A r \in Routers : IsRouter(r)
  /\ \A old \in OldFiles :
       /\ old.version \in {1, 2}
       /\ old.routers \in Seq(RouterRecords)
       /\ \A i \in DOMAIN old.routers : IsRouter(old.routers[i])
  /\ Cuts \subseteq Nat
  /\ VlanValues \subseteq Int

VARIABLES
  up,         \* the daemon is running
  services,   \* its routers by index, id and family, as last set
  names,      \* the kernel's interfaces: a function from indexes to names
  lastIndex,  \* the last index given out
  file,       \* the configuration file, a sequence of fields
  saved,      \* history: the routers that the file was last meant to hold, in their order
  nameless,   \* history: one of them was on an interface that was gone
  refused     \* history: the entries whose router the kernel refused the start just made

vars == <<up, services, names, lastIndex, file, saved, nameless, refused>>

None == [k \in {} |-> 0]

KeyOf(index, r) == <<index, r.vrid, r.family>>

IndexOf(name) == {i \in DOMAIN names : names[i] = name}

\* The key of a router on the interface that has its name now.
HomeOf(r) == KeyOf(CHOOSE i \in IndexOf(r.interface) : TRUE, r)

-----------------------------------------------------------------------------
(* Saving *)

Before(k, l) ==
  \/ k[1] < l[1]
  \/ k[1] = l[1] /\ k[2] < l[2]
  \/ k[1] = l[1] /\ k[2] = l[2] /\ k[3] = "inet" /\ l[3] = "inet6"

\* The services in the order of the maps that hold them.
Rank(k) == Cardinality({l \in DOMAIN services : Before(l, k)})
Ordered ==
  [i \in 1..Cardinality(DOMAIN services) |-> CHOOSE k \in DOMAIN services : Rank(k) = i - 1]

\* if_indextoname leaves ifname as it is when the interface is gone: as on the
\* stack, which the entry before may have left its name on.
Ifname ==
  {written \in [DOMAIN Ordered -> Names \cup {Garbage}] :
     \A i \in DOMAIN Ordered :
       IF Ordered[i][1] \in DOMAIN names
       THEN written[i] = names[Ordered[i][1]]
       ELSE written[i] = Garbage \/ (i > 1 /\ written[i] = written[i - 1])}

ToSave(written) ==
  [i \in DOMAIN Ordered |-> [services[Ordered[i]] EXCEPT !.interface = written[i]]]

\* The file is emptied and then written.  The last of it is written by the
\* destructor of the stream, after which nobody asks: a full disk cuts the file short
\* of a save that is reported as done.
writeConfiguration ==
  \E written \in Ifname :
    LET image == Image(3, ToSave(written))
    IN \E end \in {Len(image)} \cup {n \in Cuts : n < Len(image)} :
         /\ file' = SubSeq(image, 1, end)
         /\ saved' = ToSave(written)
         /\ nameless' = \E k \in DOMAIN services : k[1] \notin DOMAIN names

Save ==
  /\ up
  /\ writeConfiguration
  /\ refused' = {}
  /\ UNCHANGED <<up, services, names, lastIndex>>

-----------------------------------------------------------------------------
(* Starting *)

HeldInterval_AsRead(r) == r.interval
HeldInterval(r)        == r.interval \div 10

\* A router that is there already is set again: what it has is kept where the entry
\* says nothing.
Restored(s, k, r) ==
  LET held == [r EXCEPT !.interval = HeldInterval(r)]
  IN IF k \notin DOMAIN s
     THEN [l \in DOMAIN s \cup {k} |-> IF l = k THEN held ELSE s[l]]
     ELSE [s EXCEPT ![k] =
             [held EXCEPT !.vlanId = s[k].vlanId,
                          !.subnets = @ \cup s[k].subnets,
                          !.primary = IF r.primary = AutoPrimary THEN s[k].primary ELSE @]]

\* The entries one after the other; those of unknown interfaces, and those whose
\* router cannot be created, are skipped.
Services(entries, skipped) ==
  LET Apply[n \in 0..Len(entries)] ==
        IF n = 0
        THEN None
        ELSE LET s == Apply[n - 1]
                 r == entries[n]
                 k == HomeOf(r)
             IN IF Sane(r) /\ IndexOf(r.interface) # {} /\ (n \notin skipped \/ k \in DOMAIN s)
                THEN Restored(s, k, r)
                ELSE s
  IN Apply[Len(entries)]

\* The kernel may refuse any router its socket, or its VLAN.
readConfiguration ==
  \E vlan \in VlanValues :
    LET entries == readEntries(file, vlan)
    IN \E skipped \in SUBSET DOMAIN entries :
         /\ services' = Services(entries, skipped)
         /\ refused' = skipped

Start ==
  /\ ~up
  /\ up' = TRUE
  /\ readConfiguration
  /\ UNCHANGED <<names, lastIndex, file, saved, nameless>>

-----------------------------------------------------------------------------
(* The operator, the kernel, and the end of the daemon *)

\* Commands bring a router to any of its settings; its VLAN it keeps.
SetRouter(r) ==
  /\ up
  /\ \E i \in IndexOf(r.interface) :
       LET k == KeyOf(i, r)
       IN /\ k \in DOMAIN services => services[k].vlanId = r.vlanId
          /\ services' = [l \in DOMAIN services \cup {k} |-> IF l = k THEN r ELSE services[l]]
  /\ refused' = {}
  /\ UNCHANGED <<up, names, lastIndex, file, saved, nameless>>

RemoveRouter(k) ==
  /\ up
  /\ services' = [l \in DOMAIN services \ {k} |-> services[l]]
  /\ refused' = {}
  /\ UNCHANGED <<up, names, lastIndex, file, saved, nameless>>

InterfaceGoes(i) ==
  /\ names[i] \in Removable
  /\ names' = [j \in DOMAIN names \ {i} |-> names[j]]
  /\ refused' = {}
  /\ UNCHANGED <<up, services, lastIndex, file, saved, nameless>>

InterfaceComes(name) ==
  /\ lastIndex < MaxIndex
  /\ IndexOf(name) = {}
  /\ lastIndex' = lastIndex + 1
  /\ names' = [j \in DOMAIN names \cup {lastIndex'} |-> IF j = lastIndex' THEN name ELSE names[j]]
  /\ refused' = {}
  /\ UNCHANGED <<up, services, file, saved, nameless>>

\* By a signal, or killed.  A daemon that is killed in the middle of a save is one
\* whose save was cut short, and which ends then; one that a refusal kills while it
\* reads its file is one that has started, and ends.
Ends ==
  /\ up
  /\ up' = FALSE
  /\ services' = None
  /\ refused' = {}
  /\ UNCHANGED <<names, lastIndex, file, saved, nameless>>

Init ==
  /\ up = FALSE
  /\ services = None
  /\ lastIndex = Len(Interfaces)
  /\ names = Interfaces
  /\ \E old \in OldFiles : file = Image(old.version, old.routers) /\ saved = old.routers
  /\ nameless = FALSE
  /\ refused = {}

Next ==
  \/ Save \/ Start \/ Ends
  \/ \E r \in Routers : SetRouter(r)
  \/ \E k \in DOMAIN services : RemoveRouter(k)
  \/ \E i \in DOMAIN names : InterfaceGoes(i)
  \/ \E name \in Names : InterfaceComes(name)

Spec == Init /\ [][Next]_vars

-----------------------------------------------------------------------------
(* Properties *)

ConfiguratorTypeOK ==
  /\ up \in BOOLEAN
  /\ \A k \in DOMAIN services :
       /\ k \in (1..MaxIndex) \X Vrids \X Families
       /\ services[k].interval \in Intervals
       /\ services[k].priority \in Priorities
       /\ services[k].subnets \subseteq [address : Addresses, cidr : Nat]
       /\ services[k].primary \in Addresses \cup {AutoPrimary}
  /\ DOMAIN names \subseteq 1..lastIndex
  /\ \A i \in DOMAIN names : names[i] \in Names
  /\ lastIndex \in 0..MaxIndex
  /\ nameless \in BOOLEAN
  /\ refused \subseteq Nat

\* A saved router as it comes back: commands are cut to 255 bytes, and version 1 has
\* none; the VLAN is lost with a file of an earlier version than 3.
ComesBack(version, r, restored) ==
  restored = [r EXCEPT
    !.interval = @ * 10,
    !.master = IF version > 1 THEN Kept(@) ELSE NoCommand,
    !.backup = IF version > 1 THEN Kept(@) ELSE NoCommand,
    !.vlanId = IF version > 2 THEN @ ELSE restored.vlanId]

\* Wherever a save was cut off, by a crash or a full disk, and wherever the buffer of
\* the stream ends, a start reads the first routers of the save, in their order, each
\* with all its settings, and none that is half set.
NoneHalfRestored ==
  \A vlan \in VlanValues :
    LET read == readEntries(file, vlan)
    IN /\ Len(read) <= Len(saved)
       /\ \A i \in DOMAIN read : ComesBack(file[1].value, saved[i], read[i])

\* A file that was written to its end, and is not longer than the stream's buffer, is
\* read to its last entry.
SaveIsRestored ==
  file # <<>> /\ file = Image(file[1].value, saved) /\ Extent(file).bytes <= StreamBuffer =>
    \A vlan \in VlanValues : Len(readEntries(file, vlan)) = Len(saved)

\* A start on such a file, with no interface gone since the save.
PlainStart ==
  /\ ~up /\ up'
  /\ ~nameless /\ \A i \in DOMAIN saved : IndexOf(saved[i].interface) # {}
  /\ file = Image(3, saved) /\ Extent(file).bytes <= StreamBuffer

\* Restored as it was saved.
AsSaved(r) ==
  /\ HomeOf(r) \in DOMAIN services'
  /\ services'[HomeOf(r)] = [r EXCEPT !.master = Kept(@), !.backup = Kept(@)]

\* Such a start, if the daemon survives it, brings back the very routers that were saved,
\* but those that the kernel refuses: what is sane to the operator's commands is sane to
\* the reader, and no entry overwrites another.
RestartChangesNothing ==
  [][PlainStart => \A i \in DOMAIN saved \ refused' : AsSaved(saved[i])]_vars

=============================================================================
