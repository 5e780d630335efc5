--------------------------- MODULE MCConfigurator ---------------------------
(* Values for checking Configurator: two interfaces, three routers of both *)
(* families, one with every optional field, a command of more than 255     *)
(* bytes and two subnets.                                                  *)
EXTENDS Configurator, TLC

A4 == [family |-> "inet", ip |-> 1]
B4 == [family |-> "inet", ip |-> 2]
A6 == [family |-> "inet6", ip |-> 1]

TwoInterfaces == <<"eth0", "eth1">>

AllAddresses == {A4, B4, A6}

Strings == ("" :> 0) @@ ("eth0" :> 4) @@ ("eth1" :> 4) @@ ("garbage" :> 7)
             @@ ("cmd" :> 3) @@ ("long" :> 300) @@ ("lon" :> 255)
FirstBytes == [s \in DOMAIN Strings |-> IF s = "long" THEN "lon" ELSE s]

Plain(name, family) ==
  [interface |-> name, vrid |-> 1, family |-> family, vlanId |-> 0, priority |-> 100,
   interval |-> 100, accept |-> FALSE, preempt |-> TRUE, enabled |-> FALSE, primary |-> AutoPrimary,
   master |-> NoCommand, backup |-> NoCommand, subnets |-> {}]

Full ==
  [interface |-> "eth0", vrid |-> 1, family |-> "inet", vlanId |-> 0, priority |-> 255,
   interval |-> 4095, accept |-> TRUE, preempt |-> FALSE, enabled |-> TRUE, primary |-> B4,
   master |-> "cmd", backup |-> NoCommand,
   subnets |-> {[address |-> A4, cidr |-> 24], [address |-> B4, cidr |-> 32]}]

Tagged == [Plain("eth1", "inet6") EXCEPT !.vlanId = 7, !.master = "long", !.interval = 1,
                                         !.subnets = {[address |-> A6, cidr |-> 64]}]

SomeRouters == {Plain("eth0", "inet"), Full, Tagged}

Earlier ==
  {[version |-> 1, routers |-> <<Plain("eth0", "inet")>>],
   [version |-> 2, routers |-> <<Full>>]}

\* The length of a save of Tagged alone.
TaggedBytes == Extent(Image(3, <<Tagged>>)).bytes

=============================================================================
