--------------------------- MODULE UsbDescriptors ---------------------------
(***************************************************************************)
(* What the device tells a host about itself (usb_related.c): the device   *)
(* descriptor, the configuration descriptor as the sequence of descriptors *)
(* it consists of, the strings, and get_descriptor, which hands them out.  *)
(***************************************************************************)

EXTENDS Naturals, Sequences, FiniteSets

Device == [iManufacturer |-> 1, iProduct |-> 2, iSerialNumber |-> 3,
           bNumConfigurations |-> 1]

Interface(number, endpoints) ==
    [type |-> "interface", bLength |-> 9, number |-> number, endpoints |-> endpoints]

Functional(length) == [type |-> "functional", bLength |-> length]

Endpoint(number, in, transfer, maxPacketSize) ==
    [type |-> "endpoint", bLength |-> 7, number |-> number, in |-> in,
     transfer |-> transfer, wMaxPacketSize |-> maxPacketSize]

\* bMaxPower counts in units of 2 mA.
Top == [type |-> "configuration", bLength |-> 9, wTotalLength |-> 67,
        bNumInterfaces |-> 2, bMaxPower |-> 250]

Configuration ==
    << Top,
       Interface(0, 1),
       Functional(5), Functional(5), Functional(4), Functional(5),
       Endpoint(2, TRUE, "interrupt", 8),
       Interface(1, 2),
       Endpoint(1, FALSE, "bulk", 64),
       Endpoint(1, TRUE, "bulk", 64) >>

\* The descriptor, a string by its index; none is NULL and stalls the request.
get_descriptor(dtype, dindex) ==
    CASE dtype = "device"                      -> {Device}
      [] dtype = "configuration"               -> {Configuration}
      [] dtype = "string" /\ dindex \in 0 .. 3 -> {dindex}
      [] OTHER                                 -> {}

\* ep1config and ep2config, by endpoint number.  in and out are the states that
\* are there for a direction.
EndpointConfigs ==
    << [transfer |-> "bulk", in |-> TRUE, out |-> TRUE,
        in_maxsize |-> 64, out_maxsize |-> 64],
       [transfer |-> "interrupt", in |-> TRUE, out |-> FALSE,
        in_maxsize |-> 16, out_maxsize |-> 0] >>

(***************************************************************************)
(* What a host makes of it (outside src/).                                 *)
(***************************************************************************)

Interfaces == {i \in DOMAIN Configuration : Configuration[i].type = "interface"}

\* Where descriptor i begins, and behind the last one, where the whole ends.
Offset[i \in 1 .. Len(Configuration) + 1] ==
    IF i = 1 THEN 0 ELSE Offset[i - 1] + Configuration[i - 1].bLength

\* The endpoint descriptors between interface descriptor i and the next one.
EndpointsAfter(i) ==
    {j \in i + 1 .. Len(Configuration) :
        /\ Configuration[j].type = "endpoint"
        /\ \A k \in i + 1 .. j : Configuration[k].type # "interface"}

\* The lengths add up, and the interfaces and endpoints are those announced.
WellFormed ==
    /\ Offset[Len(Configuration) + 1] = Top.wTotalLength
    /\ Cardinality(Interfaces) = Top.bNumInterfaces
    /\ \A i \in Interfaces :
            Cardinality(EndpointsAfter(i)) = Configuration[i].endpoints

\* Every string that the device descriptor names is there.
StringsAnswered ==
    \A i \in {0, Device.iManufacturer, Device.iProduct, Device.iSerialNumber} :
        get_descriptor("string", i) # {}

=============================================================================
