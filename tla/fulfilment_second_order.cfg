SPECIFICATION ShipmentsSpec
CONSTANTS
  Lines = {l1}
  Ordered <- OneOfEachLine
  MaxParcels = 1
  Desks = {d1}
  CourierFailures = {"TIMEOUT", "VALIDATION"}
  ByHand = {}
  Says = {}
  CashOnDelivery = FALSE
  MaxShipmentCrashes = 0
INVARIANT OneOrderAtCourier
CHECK_DEADLOCK FALSE
