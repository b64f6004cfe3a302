SPECIFICATION Spec
PROPERTIES DeliversWhole OffersTheOnlyOne StopIsHeard ImportSettles
CHECK_DEADLOCK FALSE
