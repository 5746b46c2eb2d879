SPECIFICATION MonitorSpec
CONSTANT Replaced = FALSE
CHECK_DEADLOCK FALSE
INVARIANT PassNeedsDelivery
