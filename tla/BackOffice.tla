------------------------------ MODULE BackOffice ------------------------------
(***************************************************************************)
(* The manager's application: the books of the store, and beside them the  *)
(* components that keep no state in common with the books or each other:   *)
(* stock counts, the register's screen, backups, the cloud restore, the    *)
(* staff's access and the managers of a cloud account.  A step of the      *)
(* application is a step of one of them.                                   *)
(***************************************************************************)
EXTENDS StoreBooks

CONSTANTS
    (* StockCount                                                          *)
    Shelf, ShelfStart, ShelfStock, Counts, MaxMoves, MaxApplied,
    (* Register                                                            *)
    Goods, PlainTenders, MaxQuantity, MaxKeys, MaxCharges, MaxParked,
    (* Backups                                                             *)
    Images, Keep, Latest, MaxRung, MaxBackups,
    (* StoreRestore                                                        *)
    Price, MaxPrices, MaxEvents, MaxMachines,
    (* Access                                                              *)
    Staff, Permissions, MaxAttempts, LockTime, IdleTime, ElevationTime, MaxTime,
    (* CloudAccount                                                        *)
    Devices, CloudAccounts, Legacy, MaxSales, MaxSignIns

VARIABLES
    (* StockCount                                                          *)
    shelfStock, stockCount, counted, expected, window, posted, since, moves,
    (* Register                                                            *)
    basket, unknown, panel, chargeStatus, chargeReference, completionKey, selling,
    asking, receipt,
    known, parked, sales, txs, touched, served,
    (* Backups                                                             *)
    database, files, vault, disk, version, restoring, chosen, copy, clock, swap, rung,
    (* StoreRestore                                                        *)
    store, outbox, sync, cloud, stage, machine, answer, kept, due, silent,
    (* Access                                                              *)
    staff, staffMode, current, elevation, lastActivity, shown, approval, time,
    permits, overdrawn,
    (* CloudAccount                                                        *)
    signedIn, accountFile, settings, ownSales, pulledSales, restored, joining, readBack,
    engineRuns, storeOf, prefixes, events, confirmedBy, astray, signIns

Count == INSTANCE StockCount WITH
    stock <- shelfStock, count <- stockCount, Products <- Shelf, StartStock <- ShelfStart

Till == INSTANCE Register WITH
    cart <- basket, key <- completionKey, payment <- panel, sale <- receipt

Copies == INSTANCE Backups WITH
    store <- database, stage <- restoring, MaxSales <- MaxRung

Cloud == INSTANCE StoreRestore

Door == INSTANCE Access

Managers == INSTANCE CloudAccount WITH
    Accounts <- CloudAccounts,
    account <- signedIn, stored <- accountFile, local <- settings, sales <- ownSales,
    pulled <- pulledSales, seeded <- restored, stage <- joining, found <- readBack,
    engine <- engineRuns, registered <- prefixes, joined <- confirmedBy

ASSUME OfficeAssumption ==
    /\ Count!CountAssumption
    /\ Till!RegisterAssumption
    /\ Copies!BackupsAssumption
    /\ Cloud!RestoreAssumption
    /\ Door!AccessAssumption
    /\ Managers!AccountAssumption

countVars == <<shelfStock, stockCount, counted, expected, window, posted, since, moves>>
tillVars ==
    <<basket, unknown, panel, chargeStatus, chargeReference, completionKey, selling,
      asking, receipt, known, parked, sales, txs, touched, served>>
copyVars ==
    <<database, files, vault, disk, version, restoring, chosen, copy, clock, swap, rung>>
cloudVars ==
    <<store, outbox, sync, cloud, stage, machine, answer, kept, due, silent>>
doorVars ==
    <<staff, staffMode, current, elevation, lastActivity, shown, approval, time,
      permits, overdrawn>>
accountVars ==
    <<signedIn, accountFile, settings, ownSales, pulledSales, restored, joining, readBack,
      engineRuns, storeOf, prefixes, events, confirmedBy, astray, signIns>>
officeVars ==
    <<vars, countVars, tillVars, copyVars, cloudVars, doorVars, accountVars>>

OfficeInit ==
    Init /\ Count!Init /\ Till!Init /\ Copies!Init /\ Cloud!Init /\ Door!Init
    /\ Managers!Init

KeepBooks ==
    /\ Next
    /\ UNCHANGED <<countVars, tillVars, copyVars, cloudVars, doorVars, accountVars>>
CountStock ==
    /\ Count!Next
    /\ UNCHANGED <<vars, tillVars, copyVars, cloudVars, doorVars, accountVars>>
UseTill ==
    /\ Till!Next
    /\ UNCHANGED <<vars, countVars, copyVars, cloudVars, doorVars, accountVars>>
KeepCopies ==
    /\ Copies!Next
    /\ UNCHANGED <<vars, countVars, tillVars, cloudVars, doorVars, accountVars>>
RestoreFromCloud ==
    /\ Cloud!Next
    /\ UNCHANGED <<vars, countVars, tillVars, copyVars, doorVars, accountVars>>
AskAtTheDoor ==
    /\ Door!Next
    /\ UNCHANGED <<vars, countVars, tillVars, copyVars, cloudVars, accountVars>>
JoinAccount ==
    /\ Managers!Next
    /\ UNCHANGED <<vars, countVars, tillVars, copyVars, cloudVars, doorVars>>

OfficeNext ==
    KeepBooks \/ CountStock \/ UseTill \/ KeepCopies \/ RestoreFromCloud
    \/ AskAtTheDoor \/ JoinAccount

OfficeSpec == OfficeInit /\ [][OfficeNext]_officeVars

-----------------------------------------------------------------------------
(* The states of every component are of the kinds it declares.             *)
TypesHold ==
    /\ TypeOK /\ Count!TypeOK /\ Till!TypeOK /\ Copies!TypeOK /\ Cloud!TypeOK
    /\ Door!TypeOK /\ Managers!TypeOK

(* A stock count that is applied leaves what was counted plus what moved   *)
(* since the count was finished (finishStockCount, applyStockCount).       *)
CountCorrects == Count!CountCorrects

(* A receipt at the register is of the customer's own goods and sale, and  *)
(* an approved charge pays for the sale that names it (CheckoutScreen,     *)
(* validateExistingSaleMatch).                                             *)
OneSalePerCustomer == Till!OneSalePerCustomer

(* What was saved comes back: local backups keep the images they need and  *)
(* a restore keeps a way back; a store restored from the cloud is the one  *)
(* that was uploaded, and a restore is not refused (createBackup,          *)
(* backups:restore, restoreFromEvents).                                    *)
RestoresGiveBack == Copies!BackupsRestore /\ Cloud!RestoredIsTheStore

(* Staff mode always has an active owner, and what a cashier does beyond   *)
(* the own permissions uses up one owner's approval each (AccessControl,   *)
(* updateStaff).                                                           *)
OwnersDecide == Door!OwnersDecide

(* What a manager got acknowledged is in one store, and managers whose     *)
(* prefixes one store has confirmed never give out the same receipt        *)
(* number (configureAccountStore, claimDevicePrefix).                      *)
ManagersKeepApart == Managers!ManagersKeepApart
==============================================================================
