------------------------------- MODULE MCDrivers -------------------------------
(* The storage and USB drivers for TLC.  They share no state, so one of them *)
(* is chosen and runs alone; the others rest in their only initial state.    *)
EXTENDS XhciRings, XhciPorts, UsbBot, UsbLegacy, PciStorage, PciBars

VARIABLE driver   \* the driver that runs

DriverNext ==
  \/ /\ driver = "rings" /\ RingsNext
     /\ UNCHANGED <<portsVars, botVars, legacyVars, pciVars, barsVars>>
  \/ /\ driver = "ports" /\ PortsNext
     /\ UNCHANGED <<ringsVars, botVars, legacyVars, pciVars, barsVars>>
  \/ /\ driver = "bot" /\ BotNext
     /\ UNCHANGED <<ringsVars, portsVars, legacyVars, pciVars, barsVars>>
  \/ /\ driver = "legacy" /\ LegacyNext
     /\ UNCHANGED <<ringsVars, portsVars, botVars, pciVars, barsVars>>
  \/ /\ driver = "pci" /\ PciNext
     /\ UNCHANGED <<ringsVars, portsVars, botVars, legacyVars, barsVars>>
  \/ /\ driver = "bars" /\ BarsNext
     /\ UNCHANGED <<ringsVars, portsVars, botVars, legacyVars, pciVars>>

DriversInit ==
  /\ driver \in {"rings", "ports", "bot", "legacy", "pci", "bars"}
  /\ RingsInit /\ PortsInit /\ BotInit /\ LegacyInit /\ PciInit /\ BarsInit

Stay == UNCHANGED driver /\ DriverNext

allVars == <<driver, ringsVars, portsVars, botVars, legacyVars, pciVars, barsVars>>

DriversSpec == DriversInit /\ [][Stay]_allVars /\ WF_ringsVars(driver = "rings" /\ Driver)
===============================================================================
